---- MODULE Spec2Model ----
(***************************************************************************)
(* Model of the Tamil Panchang computation engine (src/app.py).            *)
(*                                                                         *)
(* Angles are whole degrees, computed with the code's own formulas in      *)
(* exact integer arithmetic.  Instants (Julian days) are integers in a     *)
(* unit that each part of the model names.                                 *)
(***************************************************************************)
EXTENDS Integers, Sequences, FiniteSets, TLC

VARIABLES
    \* Angular Element Calculator: get_panchang lines 1430-1436
    epc, sun_long, moon_long, tithi, nakshatra, yoga, karana,
    \* the ephemeris behind get_sun_moon_positions: longitudes at instant 0
    \* and their motion per tick
    sun0, moon0, sun_rate, moon_rate,
    \* Transition Scanner: the locals of get_*_transitions
    spc, skind, start_jd, end_jd, current_jd, seg_start_jd, current_elem,
    segments,
    \* get_panchang: the request, the ephemeris' sunrise data for the
    \* location, and the locals up to the day-division results
    gpc, req_date, req_lon, req_tz, weekday, rise_local, day_len,
    jd, sunrise_jd, sunset_jd, next_sunrise_jd,
    rahu_kalam, yamagandam, gulikai, dhurmuhurtham, gowri_panchangam, hora,
    nalla_neram,
    \* get_panchang: the classifications of lines 1467-1498
    nokku_naal, amirthathi_yoga, special_yoga, tamil_month, rutu, ayana,
    moon_rasi_index, chandrashtamam,
    \* jd_to_datetime(jd, timezone, include_date=True): a call and its result
    cpc, clk_jd, clk_tz, clk_result,
    \* a direct call of get_special_yoga: its nakshatra_number argument
    lpc, nak_arg,
    \* concurrent invocations of get_panchang: the sidereal mode of the
    \* ephemeris library (process-wide) and each invocation's locals
    sid_mode, ipc, inv_jd, inv_calls, inv_ayanamsa, inv_result,
    \* a request on its way through an entry point and get_panchang
    hpc, entry, request, eph_fails, computed, engine_ran, response

elemVars == <<epc, sun_long, moon_long, tithi, nakshatra, yoga, karana>>

ephVars == <<sun0, moon0, sun_rate, moon_rate>>

scanVars == <<spc, skind, start_jd, end_jd, current_jd, seg_start_jd,
              current_elem, segments>>

reqVars == <<req_date, req_lon, req_tz, weekday, rise_local, day_len>>

sunVars == <<jd, sunrise_jd, sunset_jd, next_sunrise_jd>>

dayVars == <<rahu_kalam, yamagandam, gulikai, dhurmuhurtham,
             gowri_panchangam, hora, nalla_neram>>

classVars == <<nokku_naal, amirthathi_yoga, special_yoga, tamil_month, rutu,
               ayana, moon_rasi_index, chandrashtamam>>

clockVars == <<cpc, clk_jd, clk_tz, clk_result>>

lookupVars == <<lpc, nak_arg>>

concVars == <<sid_mode, ipc, inv_jd, inv_calls, inv_ayanamsa, inv_result>>

handlerVars == <<hpc, entry, request, eph_fails, computed, engine_ran,
                 response>>

restVars == <<clockVars, lookupVars, concVars, handlerVars>>

vars == <<elemVars, ephVars, scanVars, gpc, reqVars, sunVars, dayVars,
          classVars, restVars>>

----------------------------------------------------------------------------
(* Static tables                                                           *)

TITHIS_TAMIL ==
    << "Prathama", "Dwithiya", "Thrithiya", "Chathurthi", "Panchami",
       "Shashthi", "Sapthami", "Ashtami", "Navami", "Dasami",
       "Ekadasi", "Dwadasi", "Trayodasi", "Chaturdasi", "Pournami/Amavasya" >>

NAKSHATRAS_TAMIL ==
    << "Aswini", "Bharani", "Karthigai", "Rohini", "Mirugasiridam",
       "Thiruvathirai", "Punarpoosam", "Poosam", "Ayilyam", "Makam",
       "Puram", "Uthiram", "Hastham", "Chithirai", "Swathi",
       "Visakam", "Anusham", "Kettai", "Moolam", "Pooradam",
       "Uthiradam", "Thiruvonam", "Avittam", "Sadayam", "Poorattathi",
       "Uthirattathi", "Revathi" >>

YOGAS ==
    << "Vishkambha", "Priti", "Ayushman", "Saubhagya", "Shobhana",
       "Atiganda", "Sukarman", "Dhriti", "Shoola", "Ganda",
       "Vriddhi", "Dhruva", "Vyaghata", "Harshana", "Vajra",
       "Siddhi", "Vyatipata", "Variyan", "Parigha", "Shiva",
       "Siddha", "Sadhya", "Shubha", "Shukla", "Brahma",
       "Indra", "Vaidhriti" >>

KARANAS ==
    << "Bava", "Balava", "Kaulava", "Taitila", "Garaja",
       "Vanija", "Vishti", "Shakuni", "Chatushpada", "Naga", "Kimstughna" >>

\* Python list indexing seq[i] with a 0-based index; an index outside the
\* list raises IndexError.
At(seq, i) == IF i + 1 \in DOMAIN seq THEN seq[i + 1] ELSE "IndexError"

Min(a, b) == IF a < b THEN a ELSE b

\* round(x * 100, 2) of the fraction num/den, in hundredths of a percent
\* (round to nearest).
RoundPct(num, den) == (2 * num * 10000 + den) \div (2 * den)

----------------------------------------------------------------------------
(* Angular Element Calculator                                              *)

\* get_tithi with the wrap of the separation into [0,360) left out.
get_tithi_no_wrap(sun, moon) ==
    LET diff      == moon - sun
        tithi_num == diff \div 12
        rem       == diff % 12
        paksha    == IF tithi_num < 15 THEN "Shukla Paksha" ELSE "Krishna Paksha"
    IN  [ number    |-> tithi_num + 1,
          name      |-> At(TITHIS_TAMIL, tithi_num % 15),
          paksha    |-> paksha,
          remaining |-> RoundPct(12 - rem, 12) ]

\* get_tithi with the paksha test off by one (<= 15 on the 0-based number).
get_tithi_paksha_off(sun, moon) ==
    LET diff      == (moon - sun) % 360
        tithi_num == diff \div 12
        rem       == diff % 12
        paksha    == IF tithi_num <= 15 THEN "Shukla Paksha" ELSE "Krishna Paksha"
    IN  [ number    |-> tithi_num + 1,
          name      |-> At(TITHIS_TAMIL, tithi_num % 15),
          paksha    |-> paksha,
          remaining |-> RoundPct(12 - rem, 12) ]

get_tithi(sun, moon) ==
    LET diff      == (moon - sun) % 360
        tithi_num == diff \div 12
        rem       == diff % 12
        paksha    == IF tithi_num < 15 THEN "Shukla Paksha" ELSE "Krishna Paksha"
    IN  [ number    |-> tithi_num + 1,
          name      |-> At(TITHIS_TAMIL, tithi_num % 15),
          paksha    |-> paksha,
          remaining |-> RoundPct(12 - rem, 12) ]

get_nakshatra(moon) ==
    LET nak_num == (moon * 27) \div 360
        rem     == (moon * 27) % 360
    IN  [ number    |-> nak_num + 1,
          name      |-> At(NAKSHATRAS_TAMIL, nak_num),
          remaining |-> RoundPct(360 - rem, 360) ]

get_yoga(sun, moon) ==
    LET yoga_val == (sun + moon) % 360
        yoga_num == (yoga_val * 27) \div 360
        rem      == (yoga_val * 27) % 360
    IN  [ number    |-> yoga_num + 1,
          name      |-> At(YOGAS, yoga_num),
          remaining |-> RoundPct(360 - rem, 360) ]

\* get_karana with the fixed karanas starting one number late (> 57).
get_karana_late_fixed(sun, moon) ==
    LET diff       == (moon - sun) % 360
        karana_num == diff \div 6
        karana_idx == IF karana_num > 57
                      THEN 7 + (karana_num - 57)
                      ELSE karana_num % 7
    IN  [ number |-> karana_num + 1,
          name   |-> At(KARANAS, Min(karana_idx, 10)) ]

\* get_karana numbering the karanas from 0 (the bare sector index).
get_karana_zero_based(sun, moon) ==
    LET diff       == (moon - sun) % 360
        karana_num == diff \div 6
        karana_idx == IF karana_num >= 57
                      THEN 7 + (karana_num - 57)
                      ELSE karana_num % 7
    IN  [ number |-> karana_num,
          name   |-> At(KARANAS, Min(karana_idx, 10)) ]

get_karana(sun, moon) ==
    LET diff       == (moon - sun) % 360
        karana_num == diff \div 6
        karana_idx == IF karana_num >= 57
                      THEN 7 + (karana_num - 57)
                      ELSE karana_num % 7
    IN  [ number |-> karana_num + 1,
          name   |-> At(KARANAS, Min(karana_idx, 10)) ]

----------------------------------------------------------------------------
(* Specification of the element calculation: the sidereal longitudes are   *)
(* any pair of whole degrees in [0,360), as get_sun_moon_positions returns *)
(* them (x % 360), and get_panchang computes the four elements from them.  *)

Degrees == 0 .. 359

NoElem == [number |-> 0, name |-> ""]

\* The parts of the engine a specification does not exercise stay idle.
IdleElem ==
    /\ epc = "idle"
    /\ sun_long = 0
    /\ moon_long = 0
    /\ tithi = NoElem
    /\ nakshatra = NoElem
    /\ yoga = NoElem
    /\ karana = NoElem

IdleScan ==
    /\ sun0 = 0
    /\ moon0 = 0
    /\ sun_rate = 0
    /\ moon_rate = 0
    /\ spc = "idle"
    /\ skind = "none"
    /\ start_jd = 0
    /\ end_jd = 0
    /\ current_jd = 0
    /\ seg_start_jd = 0
    /\ current_elem = NoElem
    /\ segments = << >>

NoWindow == [start_jd |-> 0, end_jd |-> 0]

IdleDay ==
    /\ rahu_kalam = NoWindow
    /\ yamagandam = NoWindow
    /\ gulikai = NoWindow
    /\ dhurmuhurtham = NoWindow
    /\ gowri_panchangam = [day |-> << >>, night |-> << >>]
    /\ hora = [day |-> << >>, night |-> << >>]
    /\ nalla_neram = [day |-> << >>, night |-> << >>]

NoClass == [name |-> ""]

IdleClass ==
    /\ nokku_naal = NoClass
    /\ amirthathi_yoga = NoClass
    /\ special_yoga = NoClass
    /\ tamil_month = ""
    /\ rutu = ""
    /\ ayana = NoClass
    /\ moon_rasi_index = 0
    /\ chandrashtamam = NoClass

IdleClock ==
    /\ cpc = "idle"
    /\ clk_jd = 0
    /\ clk_tz = 0
    /\ clk_result = << >>

IdleLookup ==
    /\ lpc = "idle"
    /\ nak_arg = 0

IdleConc ==
    /\ sid_mode = "idle"
    /\ ipc = << >>
    /\ inv_jd = << >>
    /\ inv_calls = << >>
    /\ inv_ayanamsa = << >>
    /\ inv_result = << >>

IdleHandler ==
    /\ hpc = "idle"
    /\ entry = ""
    /\ request = << >>
    /\ eph_fails = ""
    /\ computed = {}
    /\ engine_ran = FALSE
    /\ response = << >>

IdleRest ==
    /\ IdleClock
    /\ IdleLookup
    /\ IdleConc
    /\ IdleHandler

IdlePanchang ==
    /\ gpc = "idle"
    /\ req_date = 0
    /\ req_lon = 0
    /\ req_tz = 0
    /\ weekday = 0
    /\ rise_local = 0
    /\ day_len = 0
    /\ jd = 0
    /\ sunrise_jd = 0
    /\ sunset_jd = 0
    /\ next_sunrise_jd = 0
    /\ IdleDay
    /\ IdleClass

InitElem ==
    /\ IdleRest
    /\ epc = "positions"
    /\ sun_long \in Degrees
    /\ moon_long \in Degrees
    /\ tithi = NoElem
    /\ nakshatra = NoElem
    /\ yoga = NoElem
    /\ karana = NoElem
    /\ IdleScan
    /\ IdlePanchang

ComputeElements ==
    /\ epc = "positions"
    /\ tithi' = get_tithi(sun_long, moon_long)
    /\ nakshatra' = get_nakshatra(moon_long)
    /\ yoga' = get_yoga(sun_long, moon_long)
    /\ karana' = get_karana(sun_long, moon_long)
    /\ epc' = "elements"
    /\ UNCHANGED <<sun_long, moon_long>>
    /\ UNCHANGED <<ephVars, scanVars, gpc, reqVars, sunVars, dayVars, classVars>>
    /\ UNCHANGED restVars

NextElem == ComputeElements

SpecElem == InitElem /\ [][NextElem]_vars

----------------------------------------------------------------------------
(* Properties of the Angular Element Calculator (under SpecElem)           *)

\* The separation (M - S) mod 360: the one d in [0,360) congruent to M - S.
Separation(s, m) == CHOOSE d \in 0 .. 359 : (d - (m - s)) % 360 = 0

KaranaNamesOf(s, n) ==
    { k.name : k \in { c \in { get_karana(s, m) : m \in Degrees } : c.number = n } }

KaranaCount(s, name) ==
    Cardinality({ n \in 1 .. 60 : KaranaNamesOf(s, n) = {name} })

\* C8: over the 60 karana numbers of a lunar month (from new moon on) each
\* of the four fixed karana names is returned for exactly one number and
\* each of the seven movable names for exactly eight numbers.
C8_KaranaCounts ==
    (epc = "elements" /\ moon_long = sun_long) =>
        /\ \A name \in {"Shakuni", "Chatushpada", "Naga", "Kimstughna"} :
               KaranaCount(sun_long, name) = 1
        /\ \A name \in {"Bava", "Balava", "Kaulava", "Taitila", "Garaja",
                          "Vanija", "Vishti"} :
               KaranaCount(sun_long, name) = 8

\* C30: for every longitude pair the tithi number is the karana number
\* halved and rounded up: get_tithi(S,M).number = ceil(get_karana(S,M).number
\* / 2), every tithi spanning exactly two consecutive karanas.
C30_TithiOfKarana ==
    epc = "elements" =>
        /\ 2 * tithi.number \in {karana.number, karana.number + 1}
        /\ tithi.number = (karana.number + 1) \div 2

\* The second (even-numbered) karana of a tithi of the waning half, with
\* the Moon behind the Sun.
C30_Witness ==
    /\ epc = "elements"
    /\ karana.number = 58
    /\ tithi.number = 29
    /\ moon_long < sun_long

----------------------------------------------------------------------------
(* Transition Scanner                                                      *)
(*                                                                         *)
(* Instants are whole ticks; the scan step of 1/1440 day is TicksPerStep   *)
(* ticks, so that the interval need not be a whole number of steps.  The   *)
(* ephemeris is a Sun and a Moon in uniform motion, fast enough for the    *)
(* element to change within the short intervals scanned here.              *)

TicksPerStep == 2
MaxStart     == 1
MaxSpan      == 7
MaxMoonRate  == 4

Kinds == {"tithi", "nakshatra", "yoga"}

\* increment = 1.0 / 1440.0
increment == TicksPerStep

get_sun_moon_positions(at_jd) ==
    [ sun  |-> (sun0 + sun_rate * at_jd) % 360,
      moon |-> (moon0 + moon_rate * at_jd) % 360 ]

\* The element a scanner of the given kind evaluates at an instant.
ElementAt(kind, at_jd) ==
    LET pos == get_sun_moon_positions(at_jd)
    IN  CASE kind = "tithi"     -> get_tithi(pos.sun, pos.moon)
          [] kind = "nakshatra" -> get_nakshatra(pos.moon)
          [] kind = "yoga"      -> get_yoga(pos.sun, pos.moon)

\* The entry appended for an element: start and end are the instants the
\* code hands to jd_to_datetime.
Segment(kind, elem, from, to) ==
    IF kind = "tithi"
    THEN [ number |-> elem.number, name |-> elem.name, paksha |-> elem.paksha,
           start |-> from, end |-> to ]
    ELSE [ number |-> elem.number, name |-> elem.name,
           start |-> from, end |-> to ]

InitScan ==
    /\ IdleRest
    /\ IdleElem
    /\ IdlePanchang
    /\ sun0 \in {0, 350}
    /\ moon0 \in {0, 6, 9, 355}
    /\ sun_rate \in {0, 1}
    /\ moon_rate \in 0 .. MaxMoonRate
    /\ spc = "call"
    /\ skind \in Kinds
    /\ start_jd \in 0 .. MaxStart
    /\ end_jd \in (start_jd - 1) .. (start_jd + MaxSpan)
    /\ current_jd = 0
    /\ seg_start_jd = 0
    /\ current_elem = NoElem
    /\ segments = << >>

\* The set-up before the loop: the element at the start instant.
ScanStart ==
    /\ spc = "call"
    /\ segments' = << >>
    /\ current_jd' = start_jd
    /\ current_elem' = ElementAt(skind, start_jd)
    /\ seg_start_jd' = start_jd
    /\ spc' = "loop"
    /\ UNCHANGED <<skind, start_jd, end_jd, elemVars, ephVars,
                   gpc, reqVars, sunVars, dayVars, classVars>>
    /\ UNCHANGED restVars

\* One iteration of "while current_jd < end_jd".
ScanStep ==
    /\ spc = "loop"
    /\ current_jd < end_jd
    /\ LET next_jd  == current_jd + increment
           new_elem == ElementAt(skind, next_jd)
       IN  /\ current_jd' = next_jd
           /\ IF new_elem.number # current_elem.number
              THEN /\ segments' = Append(segments,
                                     Segment(skind, current_elem, seg_start_jd, next_jd))
                   /\ current_elem' = new_elem
                   /\ seg_start_jd' = next_jd
              ELSE UNCHANGED <<segments, current_elem, seg_start_jd>>
    /\ UNCHANGED <<spc, skind, start_jd, end_jd, elemVars, ephVars,
                   gpc, reqVars, sunVars, dayVars, classVars>>
    /\ UNCHANGED restVars

\* ScanFinish closing the last segment at the scan instant, not at end_jd.
ScanFinish_at_scan_instant ==
    /\ spc = "loop"
    /\ ~(current_jd < end_jd)
    /\ segments' = Append(segments,
                         Segment(skind, current_elem, seg_start_jd, current_jd))
    /\ spc' = "done"
    /\ UNCHANGED <<skind, start_jd, end_jd, current_jd, seg_start_jd,
                   current_elem, elemVars, ephVars,
                   gpc, reqVars, sunVars, dayVars, classVars>>
    /\ UNCHANGED restVars

\* After the loop: the final element extends to the end of the period.
ScanFinish ==
    /\ spc = "loop"
    /\ ~(current_jd < end_jd)
    /\ segments' = Append(segments,
                         Segment(skind, current_elem, seg_start_jd, end_jd))
    /\ spc' = "done"
    /\ UNCHANGED <<skind, start_jd, end_jd, current_jd, seg_start_jd,
                   current_elem, elemVars, ephVars,
                   gpc, reqVars, sunVars, dayVars, classVars>>
    /\ UNCHANGED restVars

NextScan == ScanStart \/ ScanStep \/ ScanFinish

SpecScan == InitScan /\ [][NextScan]_vars

\* The scanner as the interpreter runs it: a call that can take a step
\* takes it.
SpecScanFair == SpecScan /\ WF_vars(NextScan)

----------------------------------------------------------------------------
(* Properties of the Transition Scanner (under SpecScan)                   *)

\* C2: for start < end the returned list is non-empty, its first segment
\* starts at the start instant, its last segment ends at the end instant,
\* and every segment ends where the next one starts.
C2_SegmentsChain ==
    (spc = "done" /\ start_jd < end_jd) =>
        /\ Len(segments) >= 1
        /\ segments[1].start = start_jd
        /\ segments[Len(segments)].end = end_jd
        /\ \A i \in 1 .. (Len(segments) - 1) :
               segments[i].end = segments[i + 1].start

\* A scan that recorded two changes, the last one at a sample past end_jd.
C2_Witness ==
    /\ spc = "done"
    /\ start_jd < end_jd
    /\ Len(segments) = 3
    /\ current_jd > end_jd
    /\ segments[3].start = current_jd

\* The instants of a scan are doubles, which near a Julian day lie on a
\* grid (2^-31 day apart near 2460000.5); 1/1440 day is 1491308.09 grid
\* steps, and every "current_jd += increment" rounds its sum to the grid,
\* advancing 1491308 steps.  With a tick for the grid step, the loop
\* advances TicksPerStep ticks and 1/1440 day is TicksPerStep + 1/GridDen
\* ticks.
GridDen == 3

\* 1/1440 day, in units of 1/GridDen tick.
ExactMinute == TicksPerStep * GridDen + 1

\* ceil((end_jd - start_jd) * 1440)
CeilMinutes ==
    ((end_jd - start_jd) * GridDen + ExactMinute - 1) \div ExactMinute

\* The iterations of the loop body run so far.
Iterations == (current_jd - start_jd) \div increment

\* C26: for start <= end each scanner terminates, advancing 1/1440 day per
\* iteration and running at most ceil((end_jd - start_jd) * 1440)
\* iterations; when end_jd <= start_jd the loop body never runs and exactly
\* one segment is returned.
C26_ScanTerminates ==
    /\ spc # "done" => ENABLED NextScan
    /\ spc \in {"loop", "done"} =>
           /\ current_jd = start_jd + Iterations * increment
           /\ current_jd < end_jd + increment
           /\ start_jd <= end_jd => Iterations <= CeilMinutes
           /\ end_jd <= start_jd => Iterations = 0
    /\ (spc = "done" /\ end_jd <= start_jd) => Len(segments) = 1

\* Under SpecScanFair every scan returns.
ScanReturns == <>(spc = "done")

\* C3: every returned segment lies within the scanned interval and is
\* well-ordered: start_jd <= start <= end <= end_jd.
C3_SegmentsWithin ==
    (spc = "done" /\ start_jd < end_jd) =>
        \A i \in 1 .. Len(segments) :
            /\ start_jd <= segments[i].start
            /\ segments[i].start <= segments[i].end
            /\ segments[i].end <= end_jd

\* The element number at an instant, and the instants inside (start, end)
\* at which it differs from the tick before.
NumberAt(t) == ElementAt(skind, t).number

ChangesInside ==
    { t \in (start_jd + 1) .. (end_jd - 1) : NumberAt(t) # NumberAt(t - 1) }

\* C4: if the number changes exactly once inside (start, end), at instant
\* t, exactly two segments are returned, the first with the number before
\* the change and the second with the number after it, and their common
\* boundary b satisfies t <= b < t + one scan step.
C4_SingleChange ==
    (spc = "done" /\ start_jd < end_jd /\ Cardinality(ChangesInside) = 1) =>
        LET t == CHOOSE x \in ChangesInside : TRUE
        IN  /\ Len(segments) = 2
            /\ segments[1].number = NumberAt(t - 1)
            /\ segments[2].number = NumberAt(t)
            /\ segments[1].end = segments[2].start
            /\ t <= segments[1].end
            /\ segments[1].end < t + increment

----------------------------------------------------------------------------
(* Panchang Aggregator: the day boundary                                   *)
(*                                                                         *)
(* From here on an instant (a Julian day) is a whole number of units of    *)
(* 30 seconds counted from a UT midnight, and a civil date is a day        *)
(* number.  The unit makes the divisions of the day-division engine exact  *)
(* for intervals of whole hours.                                           *)

OneHour == 8 * 15
OneDay  == 24 * OneHour

MaxDate == 2

\* julian_day(year, month, day, hour, minute, second): swe.julday of the
\* date and the decimal hour, taken as UT.
julian_day(day, hour, minute, second) ==
    day * OneDay + hour * OneHour + minute * 2 + second \div 30

\* swe.rise_trans(t, SUN, rsmi, geopos): the next rise (rsmi = 1) or set
\* (rsmi = 2) after t.  At the location the Sun rises every day at local
\* mean time rise_local, that is at UT rise_local - lon/15 h, and sets
\* day_len later.
NextAtPhase(t, phase) == t + 1 + ((phase - (t + 1)) % OneDay)

rise_trans(t, rsmi, lon) ==
    LET rise_ut == rise_local - (lon * OneHour) \div 15
    IN  IF rsmi = 1
        THEN NextAtPhase(t, rise_ut)
        ELSE NextAtPhase(t, rise_ut + day_len)

get_sunrise_sunset(at_jd, lon) ==
    LET rise == rise_trans(at_jd - OneDay, 1, lon)
        set  == rise_trans(rise, 2, lon)
    IN  [sunrise |-> rise, sunset |-> set]

\* A request for a civil date at a longitude, with the UTC offset of that
\* longitude; sunrise between 04:00 and 08:00 local mean time.
InitSun ==
    /\ IdleRest
    /\ IdleElem
    /\ IdleScan
    /\ IdleDay
    /\ IdleClass
    /\ gpc = "request"
    /\ req_date \in 1 .. MaxDate
    /\ req_lon \in { 15 * k : k \in -12 .. 12 }
    /\ req_tz = (req_lon * OneHour) \div 15
    /\ weekday = 0
    /\ rise_local \in { h * OneHour : h \in 4 .. 8 }
    /\ day_len \in { h * OneHour : h \in {10, 12, 14} }
    /\ jd = 0
    /\ sunrise_jd = 0
    /\ sunset_jd = 0
    /\ next_sunrise_jd = 0

\* dt = strptime(date); jd = julian_day(dt.year, dt.month, dt.day, 6, 0, 0);
\* weekday_sunday_start = (dt.weekday() + 1) % 7 (day number 0 a Sunday)
JulianDay ==
    /\ gpc = "request"
    /\ jd' = julian_day(req_date, 6, 0, 0)
    /\ weekday' = req_date % 7
    /\ gpc' = "sunrise"
    /\ UNCHANGED <<req_date, req_lon, req_tz, rise_local, day_len,
                   sunrise_jd, sunset_jd, next_sunrise_jd,
                   elemVars, ephVars, scanVars, dayVars, classVars>>
    /\ UNCHANGED restVars

GetSunriseSunset ==
    /\ gpc = "sunrise"
    /\ LET r == get_sunrise_sunset(jd, req_lon)
       IN  /\ sunrise_jd' = r.sunrise
           /\ sunset_jd' = r.sunset
    /\ gpc' = "next_sunrise"
    /\ UNCHANGED <<reqVars, jd, next_sunrise_jd,
                   elemVars, ephVars, scanVars, dayVars, classVars>>
    /\ UNCHANGED restVars

GetNextSunrise ==
    /\ gpc = "next_sunrise"
    /\ LET next_day_jd == julian_day(req_date + 1, 6, 0, 0)
       IN  next_sunrise_jd' = get_sunrise_sunset(next_day_jd, req_lon).sunrise
    /\ gpc' = "positions"
    /\ UNCHANGED <<reqVars, jd, sunrise_jd, sunset_jd,
                   elemVars, ephVars, scanVars, dayVars, classVars>>
    /\ UNCHANGED restVars

NextSun == JulianDay \/ GetSunriseSunset \/ GetNextSunrise

SpecSun == InitSun /\ [][NextSun]_vars

\* The local civil date on which an instant falls at the request's offset.
LocalDate(t) == (t + req_tz) \div OneDay

\* C1: the sunrise used as the start of the Tamil day is the sunrise that
\* occurs on the requested local civil date D, and the next sunrise used
\* is the sunrise of local civil date D + 1.
C1_SunriseOfCivilDate ==
    gpc = "positions" =>
        /\ LocalDate(sunrise_jd) = req_date
        /\ LocalDate(next_sunrise_jd) = req_date + 1

----------------------------------------------------------------------------
(* Day-Division Engine                                                     *)

MaxDayHours   == 26
MaxNightHours == 16

GOWRI_DAY_SEQUENCE ==
    << << "Uthi", "Amridha", "Rogam", "Labam", "Dhanam", "Sugam", "Visham", "Soram" >>,
       << "Labam", "Dhanam", "Sugam", "Visham", "Soram", "Amridha", "Uthi", "Rogam" >>,
       << "Visham", "Soram", "Uthi", "Amridha", "Rogam", "Labam", "Dhanam", "Sugam" >>,
       << "Rogam", "Labam", "Dhanam", "Sugam", "Visham", "Soram", "Uthi", "Amridha" >>,
       << "Dhanam", "Sugam", "Soram", "Uthi", "Amridha", "Visham", "Rogam", "Labam" >>,
       << "Sugam", "Soram", "Uthi", "Visham", "Amridha", "Rogam", "Labam", "Dhanam" >>,
       << "Soram", "Uthi", "Visham", "Amridha", "Rogam", "Labam", "Dhanam", "Sugam" >> >>

GOWRI_NIGHT_SEQUENCE ==
    << << "Amridha", "Visham", "Rogam", "Labam", "Dhanam", "Sugam", "Soram", "Uthi" >>,
       << "Uthi", "Amridha", "Rogam", "Labam", "Sugam", "Dhanam", "Visham", "Soram" >>,
       << "Rogam", "Labam", "Dhanam", "Sugam", "Visham", "Soram", "Uthi", "Amridha" >>,
       << "Dhanam", "Sugam", "Soram", "Uthi", "Amridha", "Visham", "Rogam", "Labam" >>,
       << "Visham", "Soram", "Uthi", "Amridha", "Rogam", "Labam", "Dhanam", "Sugam" >>,
       << "Rogam", "Labam", "Dhanam", "Sugam", "Soram", "Uthi", "Visham", "Amridha" >>,
       << "Labam", "Dhanam", "Sugam", "Visham", "Soram", "Uthi", "Amridha", "Rogam" >> >>

\* AUSPICIOUS_GOWRI with Dhanam left out.
AUSPICIOUS_GOWRI_without_Dhanam == {"Amridha", "Uthi", "Labam", "Sugam"}

AUSPICIOUS_GOWRI == {"Amridha", "Uthi", "Labam", "Sugam", "Dhanam"}

INAUSPICIOUS_GOWRI == {"Visham", "Rogam", "Soram"}

PLANETS_HORA == << "Sun", "Venus", "Mercury", "Moon", "Saturn", "Jupiter", "Mars" >>

\* HORA_DAY_RULERS naming the planets in table order.
HORA_DAY_RULERS_in_table_order == << 0, 1, 2, 3, 4, 5, 6 >>

\* HORA_DAY_RULERS stepping through PLANETS_HORA four places a weekday.
HORA_DAY_RULERS_four_apart == << 0, 4, 1, 5, 2, 6, 3 >>

HORA_DAY_RULERS == << 0, 3, 6, 2, 5, 1, 4 >>

\* yama_positions holding the Gulikai Kalam table.
yama_positions_of_gulikai == << 7, 6, 5, 4, 3, 2, 1 >>

rahu_positions    == << 8, 2, 7, 5, 6, 4, 3 >>
yama_positions    == << 5, 4, 3, 2, 1, 7, 6 >>
gulikai_positions == << 7, 6, 5, 4, 3, 2, 1 >>
dhur_positions    == << 14, 12, 11, 10, 9, 6, 8 >>

\* jd_to_datetime(jd, timezone): the local time of day <<HH, MM, SS>> of an
\* instant; the timezone is an offset in units of 30 seconds.
jd_to_datetime(at_jd, timezone) ==
    LET hour          == at_jd % OneDay
        shifted       == hour + timezone
        hour_adjusted == IF shifted >= OneDay THEN shifted - OneDay
                         ELSE IF shifted < 0 THEN shifted + OneDay
                         ELSE shifted
        hours         == hour_adjusted \div OneHour
        minutes       == ((hour_adjusted - hours * OneHour) * 60) \div OneHour
        seconds       == (((hour_adjusted - hours * OneHour) * 60
                            - minutes * OneHour) * 60) \div OneHour
    IN  <<hours, minutes, seconds>>

NextDaySuffix(is_next_day) == IF is_next_day THEN " (next day)" ELSE ""

\* The shared body of get_rahu_kalam, get_yamagandam, get_gulikai_kalam and
\* get_dhurmuhurtham: part number `position` of `parts` equal parts of
\* daylight.  start_jd and end_jd are the function's locals.
DayWindow(sunrise, sunset, position, parts, timezone) ==
    LET day_duration  == (sunset - sunrise) * 24
        part_duration == day_duration \div parts
        from          == sunrise + ((position - 1) * part_duration) \div 24
        to            == sunrise + (position * part_duration) \div 24
        is_next_day   == to >= sunrise + OneDay
    IN  [ start_jd   |-> from,
          end_jd     |-> to,
          start      |-> jd_to_datetime(from, timezone),
          end        |-> jd_to_datetime(to, timezone),
          end_suffix |-> NextDaySuffix(is_next_day) ]

\* get_rahu_kalam taking the table entry as a 0-based part number.
get_rahu_kalam_zero_based(sunrise, sunset, wd, timezone) ==
    DayWindow(sunrise, sunset, At(rahu_positions, wd) + 1, 8, timezone)

get_rahu_kalam(sunrise, sunset, wd, timezone) ==
    DayWindow(sunrise, sunset, At(rahu_positions, wd), 8, timezone)

get_yamagandam(sunrise, sunset, wd, timezone) ==
    DayWindow(sunrise, sunset, At(yama_positions, wd), 8, timezone)

get_gulikai_kalam(sunrise, sunset, wd, timezone) ==
    DayWindow(sunrise, sunset, At(gulikai_positions, wd), 8, timezone)

get_dhurmuhurtham(sunrise, sunset, wd, timezone) ==
    LET muhurta_duration == ((sunset - sunrise) * 24) \div 30
        position         == At(dhur_positions, wd)
    IN  DayWindow(sunrise, sunset, position, 30, timezone) @@
        [ muhurta_number   |-> position,
          duration_minutes |-> (2 * muhurta_duration * 60 + OneDay) \div (2 * OneDay) ]

GowriType(name) ==
    IF name \in AUSPICIOUS_GOWRI THEN "auspicious" ELSE "inauspicious"

\* get_gowri_panchangam measuring the night parts with the day's part
\* duration.
get_gowri_panchangam_day_length_at_night(sunrise, sunset, next_sunrise, wd, timezone) ==
    LET day_part_duration == ((sunset - sunrise) * 24) \div 8
        Part(name, from, to) ==
            [ name     |-> name,
              type     |-> GowriType(name),
              start_jd |-> from,
              end_jd   |-> to,
              start    |-> jd_to_datetime(from, timezone),
              end      |-> jd_to_datetime(to, timezone) ]
    IN  [ day   |-> [ k \in 1 .. 8 |->
                        Part(At(GOWRI_DAY_SEQUENCE, wd)[k],
                             sunrise + ((k - 1) * day_part_duration) \div 24,
                             sunrise + (k * day_part_duration) \div 24) ],
          night |-> [ k \in 1 .. 8 |->
                        Part(At(GOWRI_NIGHT_SEQUENCE, wd)[k],
                             sunset + ((k - 1) * day_part_duration) \div 24,
                             sunset + (k * day_part_duration) \div 24) @@
                        [ start_suffix |-> "", end_suffix |-> "" ] ] ]

get_gowri_panchangam(sunrise, sunset, next_sunrise, wd, timezone) ==
    LET day_part_duration   == ((sunset - sunrise) * 24) \div 8
        night_part_duration == ((next_sunrise - sunset) * 24) \div 8
        day_sequence        == At(GOWRI_DAY_SEQUENCE, wd)
        night_sequence      == At(GOWRI_NIGHT_SEQUENCE, wd)
        day_gowri ==
            [ k \in 1 .. Len(day_sequence) |->
                LET i    == k - 1
                    from == sunrise + (i * day_part_duration) \div 24
                    to   == sunrise + ((i + 1) * day_part_duration) \div 24
                IN  [ name     |-> day_sequence[k],
                      type     |-> GowriType(day_sequence[k]),
                      start_jd |-> from,
                      end_jd   |-> to,
                      start    |-> jd_to_datetime(from, timezone),
                      end      |-> jd_to_datetime(to, timezone) ] ]
        night_gowri ==
            [ k \in 1 .. Len(night_sequence) |->
                LET i    == k - 1
                    from == sunset + (i * night_part_duration) \div 24
                    to   == sunset + ((i + 1) * night_part_duration) \div 24
                IN  [ name         |-> night_sequence[k],
                      type         |-> GowriType(night_sequence[k]),
                      start_jd     |-> from,
                      end_jd       |-> to,
                      start        |-> jd_to_datetime(from, timezone),
                      end          |-> jd_to_datetime(to, timezone),
                      start_suffix |-> NextDaySuffix(from >= sunrise + OneDay),
                      end_suffix   |-> NextDaySuffix(to >= sunrise + OneDay) ] ]
    IN  [day |-> day_gowri, night |-> night_gowri]

\* get_nalla_neram keeping the parts typed inauspicious.
get_nalla_neram_inauspicious(gowri) ==
    [ day   |-> SelectSeq(gowri.day, LAMBDA period : period.type = "inauspicious"),
      night |-> SelectSeq(gowri.night, LAMBDA period : period.type = "inauspicious") ]

get_nalla_neram(gowri) ==
    LET day_nalla_neram ==
            SelectSeq(gowri.day, LAMBDA period : period.type = "auspicious")
        night_nalla_neram ==
            SelectSeq(gowri.night, LAMBDA period : period.type = "auspicious")
    IN  [day |-> day_nalla_neram, night |-> night_nalla_neram]

get_hora(sunrise, sunset, next_sunrise, wd, timezone) ==
    LET day_hora_duration   == ((sunset - sunrise) * 24) \div 12
        night_hora_duration == ((next_sunrise - sunset) * 24) \div 12
        start_planet_idx    == At(HORA_DAY_RULERS, wd)
        day_horas ==
            [ k \in 1 .. 12 |->
                LET i    == k - 1
                    from == sunrise + (i * day_hora_duration) \div 24
                    to   == sunrise + ((i + 1) * day_hora_duration) \div 24
                IN  [ hora_number |-> i + 1,
                      planet      |-> At(PLANETS_HORA, (start_planet_idx + i) % 7),
                      start_jd    |-> from,
                      end_jd      |-> to,
                      start       |-> jd_to_datetime(from, timezone),
                      end         |-> jd_to_datetime(to, timezone) ] ]
        night_horas ==
            [ k \in 1 .. 12 |->
                LET i    == k - 1
                    from == sunset + (i * night_hora_duration) \div 24
                    to   == sunset + ((i + 1) * night_hora_duration) \div 24
                IN  [ hora_number  |-> i + 13,
                      planet       |-> At(PLANETS_HORA, (start_planet_idx + 12 + i) % 7),
                      start_jd     |-> from,
                      end_jd       |-> to,
                      start        |-> jd_to_datetime(from, timezone),
                      end          |-> jd_to_datetime(to, timezone),
                      start_suffix |-> NextDaySuffix(from >= sunrise + OneDay),
                      end_suffix   |-> NextDaySuffix(to >= sunrise + OneDay) ] ]
    IN  [day |-> day_horas, night |-> night_horas]

\* The day-division calls of get_panchang, for any sunrise < sunset <
\* next sunrise a whole number of hours apart, any weekday, and a UTC
\* offset of -8 h or +5.5 h.
InitDay ==
    /\ IdleRest
    /\ IdleElem
    /\ IdleScan
    /\ IdleDay
    /\ IdleClass
    /\ gpc = "timings"
    /\ req_date = 0
    /\ req_lon = 0
    /\ req_tz \in { -8 * OneHour, 5 * OneHour + OneHour \div 2 }
    /\ weekday \in 0 .. 6
    /\ rise_local = 0
    /\ day_len = 0
    /\ jd = 0
    /\ sunrise_jd \in { 0, 6 * OneHour }
    /\ sunset_jd \in { sunrise_jd + h * OneHour : h \in 1 .. MaxDayHours }
    /\ next_sunrise_jd \in { sunset_jd + h * OneHour : h \in 1 .. MaxNightHours }

CalcRahuKalam ==
    /\ gpc = "timings"
    /\ rahu_kalam' = get_rahu_kalam(sunrise_jd, sunset_jd, weekday, req_tz)
    /\ gpc' = "yamagandam"
    /\ UNCHANGED <<yamagandam, gulikai, dhurmuhurtham, gowri_panchangam, hora,
                   nalla_neram,
                   classVars, reqVars, sunVars, elemVars, ephVars, scanVars>>
    /\ UNCHANGED restVars

CalcYamagandam ==
    /\ gpc = "yamagandam"
    /\ yamagandam' = get_yamagandam(sunrise_jd, sunset_jd, weekday, req_tz)
    /\ gpc' = "gulikai"
    /\ UNCHANGED <<rahu_kalam, gulikai, dhurmuhurtham, gowri_panchangam, hora,
                   nalla_neram,
                   classVars, reqVars, sunVars, elemVars, ephVars, scanVars>>
    /\ UNCHANGED restVars

CalcGulikai ==
    /\ gpc = "gulikai"
    /\ gulikai' = get_gulikai_kalam(sunrise_jd, sunset_jd, weekday, req_tz)
    /\ gpc' = "dhurmuhurtham"
    /\ UNCHANGED <<rahu_kalam, yamagandam, dhurmuhurtham, gowri_panchangam, hora,
                   nalla_neram,
                   classVars, reqVars, sunVars, elemVars, ephVars, scanVars>>
    /\ UNCHANGED restVars

CalcDhurmuhurtham ==
    /\ gpc = "dhurmuhurtham"
    /\ dhurmuhurtham' = get_dhurmuhurtham(sunrise_jd, sunset_jd, weekday, req_tz)
    /\ gpc' = "gowri"
    /\ UNCHANGED <<rahu_kalam, yamagandam, gulikai, gowri_panchangam, hora,
                   nalla_neram,
                   classVars, reqVars, sunVars, elemVars, ephVars, scanVars>>
    /\ UNCHANGED restVars

CalcGowri ==
    /\ gpc = "gowri"
    /\ gowri_panchangam' =
           get_gowri_panchangam(sunrise_jd, sunset_jd, next_sunrise_jd, weekday, req_tz)
    /\ gpc' = "nalla_neram"
    /\ UNCHANGED <<rahu_kalam, yamagandam, gulikai, dhurmuhurtham, hora,
                   nalla_neram,
                   classVars, reqVars, sunVars, elemVars, ephVars, scanVars>>
    /\ UNCHANGED restVars

CalcNallaNeram ==
    /\ gpc = "nalla_neram"
    /\ nalla_neram' = get_nalla_neram(gowri_panchangam)
    /\ gpc' = "hora"
    /\ UNCHANGED <<rahu_kalam, yamagandam, gulikai, dhurmuhurtham,
                   gowri_panchangam, hora,
                   classVars, reqVars, sunVars, elemVars, ephVars, scanVars>>
    /\ UNCHANGED restVars

CalcHora ==
    /\ gpc = "hora"
    /\ hora' = get_hora(sunrise_jd, sunset_jd, next_sunrise_jd, weekday, req_tz)
    /\ gpc' = "classify"
    /\ UNCHANGED <<rahu_kalam, yamagandam, gulikai, dhurmuhurtham, gowri_panchangam,
                   nalla_neram,
                   classVars, reqVars, sunVars, elemVars, ephVars, scanVars>>
    /\ UNCHANGED restVars

NextDay ==
    \/ CalcRahuKalam
    \/ CalcYamagandam
    \/ CalcGulikai
    \/ CalcDhurmuhurtham
    \/ CalcGowri
    \/ CalcNallaNeram
    \/ CalcHora

SpecDay == InitDay /\ [][NextDay]_vars

----------------------------------------------------------------------------
(* Properties of the Day-Division Engine (under SpecDay)                   *)

\* Window w is part p of n equal parts of daylight, counted from sunrise:
\* [sunrise + (p-1)L/n, sunrise + pL/n] with L = sunset - sunrise.
IsPartOfDaylight(w, p, n) ==
    /\ n * (w.start_jd - sunrise_jd) = (p - 1) * (sunset_jd - sunrise_jd)
    /\ n * (w.end_jd - sunrise_jd) = p * (sunset_jd - sunrise_jd)

Tagged(w) == "end_suffix" \in DOMAIN w /\ w.end_suffix = " (next day)"

TaggedAsClaimed(w) == Tagged(w) <=> (w.end_jd >= sunrise_jd + OneDay)

\* C10: every window of the Day-Division Engine (Rahu Kalam, Yamagandam,
\* Gulikai Kalam, Dhurmuhurtham, the day and night Gowri parts, the day
\* and night Horas) is tagged as spilling into the next day exactly when
\* its end instant is >= sunrise + 1 day.
C10_NextDayTag ==
    gpc = "classify" =>
        /\ TaggedAsClaimed(rahu_kalam)
        /\ TaggedAsClaimed(yamagandam)
        /\ TaggedAsClaimed(gulikai)
        /\ TaggedAsClaimed(dhurmuhurtham)
        /\ \A k \in DOMAIN gowri_panchangam.night :
               TaggedAsClaimed(gowri_panchangam.night[k])
        /\ \A k \in DOMAIN hora.night : TaggedAsClaimed(hora.night[k])
        /\ \A k \in DOMAIN gowri_panchangam.day :
               TaggedAsClaimed(gowri_panchangam.day[k])
        /\ \A k \in DOMAIN hora.day : TaggedAsClaimed(hora.day[k])

\* The parts of seq tile [from, to] in equal lengths: the first starts at
\* from, each ends where the next starts, the last ends at to, and all
\* have the length of the first.
Tiles(seq, from, to) ==
    /\ seq[1].start_jd = from
    /\ seq[Len(seq)].end_jd = to
    /\ \A k \in 1 .. Len(seq) - 1 : seq[k].end_jd = seq[k + 1].start_jd
    /\ \A k \in 1 .. Len(seq) :
           seq[k].end_jd - seq[k].start_jd = seq[1].end_jd - seq[1].start_jd

\* C11: for sunrise < sunset < next sunrise, get_gowri_panchangam returns
\* 8 day and 8 night parts and get_hora 12 day and 12 night horas; the day
\* parts tile [sunrise, sunset] and the night parts [sunset, next sunrise]
\* in equal lengths.
C11_PartsTile ==
    gpc = "classify" =>
        /\ sunrise_jd < sunset_jd /\ sunset_jd < next_sunrise_jd
        /\ Len(gowri_panchangam.day) = 8
        /\ Len(gowri_panchangam.night) = 8
        /\ Len(hora.day) = 12
        /\ Len(hora.night) = 12
        /\ Tiles(gowri_panchangam.day, sunrise_jd, sunset_jd)
        /\ Tiles(gowri_panchangam.night, sunset_jd, next_sunrise_jd)
        /\ Tiles(hora.day, sunrise_jd, sunset_jd)
        /\ Tiles(hora.night, sunset_jd, next_sunrise_jd)

\* Gowri parts and horas of a 13 h day followed by an 11 h night.
C11_Witness ==
    /\ gpc = "classify"
    /\ sunset_jd - sunrise_jd = 13 * OneHour
    /\ next_sunrise_jd - sunset_jd = 11 * OneHour
    /\ gowri_panchangam.day[8].end_jd = sunset_jd
    /\ gowri_panchangam.night[2].start_jd > sunset_jd
    /\ hora.night[12].end_jd = next_sunrise_jd
    /\ hora.day[2].start_jd > sunrise_jd

\* The set of entries of a sequence.
Range(seq) == { seq[k] : k \in DOMAIN seq }

\* seq lists every element of S exactly once.
IsPermutationOf(seq, S) == Len(seq) = Cardinality(S) /\ Range(seq) = S

\* The type of a Gowri part follows the two name sets.
TypedByNameSets(part) ==
    /\ (part.type = "auspicious") <=> (part.name \in AUSPICIOUS_GOWRI)
    /\ (part.type = "inauspicious") <=> (part.name \in INAUSPICIOUS_GOWRI)

\* The 8 period names, as Sunday's day sequence lists them.
GowriNames == Range(GOWRI_DAY_SEQUENCE[1])

\* C12: for every weekday the day and the night Gowri sequence are
\* permutations of the same 8 period names; every part is typed
\* 'auspicious' exactly when its name is in the auspicious set and
\* 'inauspicious' exactly when it is in the inauspicious set; the two sets
\* are disjoint and together cover the 8 names.
C12_GowriPermutations ==
    gpc \in {"nalla_neram", "hora", "classify"} =>
        /\ Cardinality(GowriNames) = 8
        /\ \A w \in 1 .. 7 :
               /\ IsPermutationOf(GOWRI_DAY_SEQUENCE[w], GowriNames)
               /\ IsPermutationOf(GOWRI_NIGHT_SEQUENCE[w], GowriNames)
        /\ IsPermutationOf([k \in 1 .. 8 |-> gowri_panchangam.day[k].name],
                           GowriNames)
        /\ IsPermutationOf([k \in 1 .. 8 |-> gowri_panchangam.night[k].name],
                           GowriNames)
        /\ \A k \in 1 .. 8 :
               /\ TypedByNameSets(gowri_panchangam.day[k])
               /\ TypedByNameSets(gowri_panchangam.night[k])
        /\ AUSPICIOUS_GOWRI \cap INAUSPICIOUS_GOWRI = {}
        /\ AUSPICIOUS_GOWRI \cup INAUSPICIOUS_GOWRI = GowriNames

\* Thursday's parts: Dhanam first by day, Visham first by night.
C12_Witness ==
    /\ gpc = "nalla_neram"
    /\ weekday = 4
    /\ gowri_panchangam.day[1].name = "Dhanam"
    /\ gowri_panchangam.day[1].type = "auspicious"
    /\ gowri_panchangam.night[1].name = "Visham"
    /\ gowri_panchangam.night[1].type = "inauspicious"

\* The positions of the parts of seq typed auspicious.
AuspiciousAt(seq) == { k \in DOMAIN seq : seq[k].type = "auspicious" }

\* sub is seq restricted to its auspicious parts, in seq's order, each part
\* unchanged.
IsAuspiciousPartOf(sub, seq) ==
    /\ Len(sub) = Cardinality(AuspiciousAt(seq))
    /\ \A j \in 1 .. Len(sub) :
           \E k \in AuspiciousAt(seq) :
               /\ Cardinality({ m \in AuspiciousAt(seq) : m <= k }) = j
               /\ sub[j] = seq[k]

\* C13: get_nalla_neram returns, separately for day and night, exactly the
\* Gowri parts typed auspicious, in their original order and with start
\* and end unchanged; no inauspicious part appears and no auspicious part
\* is missing.
C13_NallaNeram ==
    gpc \in {"hora", "classify"} =>
        /\ IsAuspiciousPartOf(nalla_neram.day, gowri_panchangam.day)
        /\ IsAuspiciousPartOf(nalla_neram.night, gowri_panchangam.night)
        /\ \A j \in DOMAIN nalla_neram.day : nalla_neram.day[j].type = "auspicious"
        /\ \A j \in DOMAIN nalla_neram.night : nalla_neram.night[j].type = "auspicious"

\* Monday: the day's auspicious parts are parts 1, 2, 3, 6 and 7.
C13_Witness ==
    /\ gpc = "hora"
    /\ weekday = 1
    /\ Len(nalla_neram.day) = 5
    /\ Len(nalla_neram.night) = 5
    /\ nalla_neram.day[4].name = "Amridha"
    /\ nalla_neram.day[4].start_jd = gowri_panchangam.day[6].start_jd
    /\ nalla_neram.day[4].end_jd < sunset_jd

\* All horas of the report, day first.
AllHoras ==
    [ k \in 1 .. Len(hora.day) + Len(hora.night) |->
        IF k <= Len(hora.day)
        THEN [ hora_number |-> hora.day[k].hora_number,
               planet      |-> hora.day[k].planet ]
        ELSE [ hora_number |-> hora.night[k - Len(hora.day)].hora_number,
               planet      |-> hora.night[k - Len(hora.day)].planet ] ]

\* C14: for every weekday get_hora returns 24 horas numbered 1..24 (day
\* 1..12, night 13..24); the planet of hora k is
\* PLANETS_HORA[(HORA_DAY_RULERS[w] + k - 1) mod 7], and hora 1 is the
\* weekday's own ruler (Sunday Sun, Monday Moon, Tuesday Mars, Wednesday
\* Mercury, Thursday Jupiter, Friday Venus, Saturday Saturn).
C14_HoraSequence ==
    gpc = "classify" =>
        /\ Len(hora.day) = 12
        /\ Len(hora.night) = 12
        /\ \A k \in 1 .. 24 :
               /\ AllHoras[k].hora_number = k
               /\ AllHoras[k].planet =
                      PLANETS_HORA[((HORA_DAY_RULERS[weekday + 1] + k - 1) % 7) + 1]
        /\ AllHoras[1].planet =
               << "Sun", "Moon", "Mars", "Mercury", "Jupiter", "Venus",
                  "Saturn" >>[weekday + 1]

\* Saturday: Saturn rules hora 1 and the night opens with hora 13, Mercury.
C14_Witness ==
    /\ gpc = "classify"
    /\ weekday = 6
    /\ hora.day[1].planet = "Saturn"
    /\ hora.night[1].hora_number = 13
    /\ hora.night[1].planet = "Mercury"
    /\ hora.night[12].hora_number = 24

\* The suffix s marks an instant t of the night as falling on the civil
\* day after the report's date (the local date of the sunrise) exactly when
\* t is past the local midnight that ends that date.
MarksNextCivilDay(s, t) ==
    (s = " (next day)") <=> (LocalDate(t) > LocalDate(sunrise_jd))

\* C27: in get_gowri_panchangam and get_hora the start or end of a night
\* period carries " (next day)" exactly when that instant falls after local
\* midnight, on the civil day following the report's date.
C27_NextDayAtLocalMidnight ==
    gpc = "classify" =>
        /\ \A k \in DOMAIN gowri_panchangam.night :
               LET p == gowri_panchangam.night[k]
               IN  /\ MarksNextCivilDay(p.start_suffix, p.start_jd)
                   /\ MarksNextCivilDay(p.end_suffix, p.end_jd)
        /\ \A k \in DOMAIN hora.night :
               LET h == hora.night[k]
               IN  /\ MarksNextCivilDay(h.start_suffix, h.start_jd)
                   /\ MarksNextCivilDay(h.end_suffix, h.end_jd)

\* Windows a and b share at most an end point.
Apart(a, b) == a.end_jd <= b.start_jd \/ b.end_jd <= a.start_jd

\* Window w is a non-empty interval inside [sunrise, sunset].
InDaylight(w) ==
    /\ sunrise_jd <= w.start_jd
    /\ w.start_jd < w.end_jd
    /\ w.end_jd <= sunset_jd

\* C28: for every weekday and sunrise < sunset, Rahu Kalam, Yamagandam and
\* Gulikai Kalam occupy three different eighths of daylight (their
\* positions are pairwise distinct), overlap in no more than an end point,
\* and all three and Dhurmuhurtham lie inside [sunrise, sunset].
C28_WindowsDisjointInDaylight ==
    gpc \in {"gowri", "nalla_neram", "hora", "classify"} =>
        LET r == At(rahu_positions, weekday)
            y == At(yama_positions, weekday)
            g == At(gulikai_positions, weekday)
        IN  /\ {r, y, g} \subseteq 1 .. 8
            /\ r # y /\ r # g /\ y # g
            /\ Apart(rahu_kalam, yamagandam)
            /\ Apart(rahu_kalam, gulikai)
            /\ Apart(yamagandam, gulikai)
            /\ InDaylight(rahu_kalam)
            /\ InDaylight(yamagandam)
            /\ InDaylight(gulikai)
            /\ InDaylight(dhurmuhurtham)

\* Sunday: Gulikai Kalam (part 7) ends where Rahu Kalam (part 8) starts,
\* Rahu Kalam ends at sunset, and Yamagandam (part 5) lies before both.
C28_Witness ==
    /\ gpc = "classify"
    /\ weekday = 0
    /\ gulikai.end_jd = rahu_kalam.start_jd
    /\ rahu_kalam.end_jd = sunset_jd
    /\ yamagandam.end_jd < gulikai.start_jd
    /\ dhurmuhurtham.end_jd < sunset_jd

\* The first hora of the report of the following civil day: get_hora for
\* the weekday after this one, from the next sunrise on.
TomorrowFirstHora ==
    get_hora(next_sunrise_jd, sunset_jd + OneDay, next_sunrise_jd + OneDay,
             (weekday + 1) % 7, req_tz).day[1]

\* The planet after p in the cyclic order of PLANETS_HORA.
PlanetAfter(p) ==
    LET i == CHOOSE k \in 1 .. 7 : PLANETS_HORA[k] = p
    IN  PLANETS_HORA[(i % 7) + 1]

\* C29: the hora cycle is unbroken across days: for every weekday w the
\* planet that would follow hora 24, PLANETS_HORA[(HORA_DAY_RULERS[w] + 24)
\* mod 7], is the planet of hora 1 of weekday (w + 1) mod 7.
C29_HoraCycleUnbroken ==
    gpc = "classify" =>
        /\ PLANETS_HORA[((HORA_DAY_RULERS[weekday + 1] + 24) % 7) + 1]
               = TomorrowFirstHora.planet
        /\ PlanetAfter(hora.night[12].planet) = TomorrowFirstHora.planet
        /\ TomorrowFirstHora.hora_number = 1

\* Saturday night closes with Mars and Sunday opens with the Sun: the
\* weekday wraps from 6 to 0.
C29_Witness ==
    /\ gpc = "classify"
    /\ weekday = 6
    /\ hora.night[12].hora_number = 24
    /\ hora.night[12].planet = "Mars"
    /\ TomorrowFirstHora.planet = "Sun"

----------------------------------------------------------------------------
(* jd_to_datetime with include_date=True                                   *)
(*                                                                         *)
(* Instants are counted in units of 30 seconds from 2024-01-01 00:00 UT;   *)
(* the calendar is the Gregorian one, as swe.revjul gives it.              *)

IsLeap(year) == year % 4 = 0 /\ (year % 100 # 0 \/ year % 400 = 0)

DaysInMonth(year, month) ==
    IF month = 2 THEN (IF IsLeap(year) THEN 29 ELSE 28)
    ELSE IF month \in {4, 6, 9, 11} THEN 30
    ELSE 31

RECURSIVE DaysBeforeMonth(_, _)
DaysBeforeMonth(year, month) ==
    IF month = 1 THEN 0
    ELSE DaysBeforeMonth(year, month - 1) + DaysInMonth(year, month - 1)

\* Days from 2024-01-01 to the first of January of a year in 1901..2099.
DaysBeforeYear(year) == 365 * (year - 2024) + ((year - 2021) \div 4)

CalendarDates ==
    { <<y, m, d>> \in (2023 .. 2025) \X (1 .. 12) \X (1 .. 31) :
          d <= DaysInMonth(y, m) }

\* swe.revjul(jd): the UT calendar date and the hour of the day.
revjul(at_jd) ==
    LET n    == at_jd \div OneDay
        date == CHOOSE c \in CalendarDates :
                    DaysBeforeYear(c[1]) + DaysBeforeMonth(c[1], c[2]) + c[3] - 1 = n
    IN  [year |-> date[1], month |-> date[2], day |-> date[3],
         hour |-> at_jd % OneDay]

\* jd_to_datetime(jd, timezone, include_date=True): (time_str, date_str)
\* as <<HH, MM, SS>> and <<YYYY, MM, DD>>.
jd_to_datetime_include_date(at_jd, timezone) ==
    LET r       == revjul(at_jd)
        shifted == r.hour + timezone
        day     == IF shifted >= OneDay THEN r.day + 1
                   ELSE IF shifted < 0 THEN r.day - 1
                   ELSE r.day
    IN  [ time |-> jd_to_datetime(at_jd, timezone),
          date |-> <<r.year, r.month, day>> ]

\* The times of day and the UTC offsets of the calls.
ClockTimes ==
    { 0, 6 * OneHour + OneHour \div 2, 12 * OneHour, 20 * OneHour,
      OneDay - 1 }

ClockOffsets ==
    { -12 * OneHour, -8 * OneHour, 0, 5 * OneHour + OneHour \div 2,
      14 * OneHour }

\* A call for any instant from 2023-12-31 to 2025-01-01 UT.
InitClock ==
    /\ IdleElem
    /\ IdleScan
    /\ IdlePanchang
    /\ IdleLookup
    /\ IdleConc
    /\ IdleHandler
    /\ cpc = "call"
    /\ clk_jd \in { n * OneDay + h : n \in -1 .. 366, h \in ClockTimes }
    /\ clk_tz \in ClockOffsets
    /\ clk_result = << >>

JdToDatetime ==
    /\ cpc = "call"
    /\ clk_result' = jd_to_datetime_include_date(clk_jd, clk_tz)
    /\ cpc' = "done"
    /\ UNCHANGED <<clk_jd, clk_tz, elemVars, ephVars, scanVars, gpc, reqVars,
                   sunVars, dayVars, classVars, lookupVars, concVars,
                   handlerVars>>

NextClock == JdToDatetime

SpecClock == InitClock /\ [][NextClock]_vars

\* C25: for every instant and every UTC offset in [-12, +14] hours
\* jd_to_datetime with include_date returns an hour in 0..23 and the valid
\* calendar date (month 1..12, day within the month's length) of the local
\* instant, also when the shift crosses midnight at the end of a month or
\* of a year.
C25_LocalDate ==
    cpc = "done" =>
        LET local == revjul(clk_jd + clk_tz)
            year  == clk_result.date[1]
            month == clk_result.date[2]
            day   == clk_result.date[3]
        IN  /\ clk_result.time[1] \in 0 .. 23
            /\ month \in 1 .. 12
            /\ day \in 1 .. DaysInMonth(year, month)
            /\ clk_result.date = <<local.year, local.month, local.day>>

----------------------------------------------------------------------------
(* Classification Engine: get_panchang lines 1467-1498                     *)

TAMIL_MONTHS ==
    << "Chithirai", "Vaikasi", "Aani", "Aadi", "Aavani", "Purattasi",
       "Aippasi", "Karthigai", "Margazhi", "Thai", "Maasi", "Panguni" >>

AMIRTHATHI_YOGAS ==
    << "Amirtha", "Siddha", "Marana", "Kana", "Uttama", "Arishta", "Sobhana",
       "Dhana", "Vradhi", "Sowmya", "Atiganda", "Kalana", "Mudgara", "Kala",
       "Bava", "Huthasana", "Varuna", "Vishkamba", "Vajra", "Siddhi", "Vyatipata",
       "Parigha", "Siva", "Sadhya", "Brahma", "Indra", "Vaidhriti" >>

\* RUTU_NAMES without the entry of Panguni.
RUTU_NAMES_without_Panguni ==
    [ Chithirai |-> "Vasantha Rutu (Spring)",
      Vaikasi |-> "Vasantha Rutu (Spring)",
      Aani |-> "Greeshma Rutu (Summer)",
      Aadi |-> "Greeshma Rutu (Summer)",
      Aavani |-> "Varsha Rutu (Monsoon)",
      Purattasi |-> "Varsha Rutu (Monsoon)",
      Aippasi |-> "Sharad Rutu (Autumn)",
      Karthigai |-> "Sharad Rutu (Autumn)",
      Margazhi |-> "Hemantha Rutu (Pre-Winter)",
      Thai |-> "Hemantha Rutu (Pre-Winter)",
      Maasi |-> "Shishira Rutu (Winter)" ]

RUTU_NAMES ==
    [ Chithirai |-> "Vasantha Rutu (Spring)",
      Vaikasi |-> "Vasantha Rutu (Spring)",
      Aani |-> "Greeshma Rutu (Summer)",
      Aadi |-> "Greeshma Rutu (Summer)",
      Aavani |-> "Varsha Rutu (Monsoon)",
      Purattasi |-> "Varsha Rutu (Monsoon)",
      Aippasi |-> "Sharad Rutu (Autumn)",
      Karthigai |-> "Sharad Rutu (Autumn)",
      Margazhi |-> "Hemantha Rutu (Pre-Winter)",
      Thai |-> "Hemantha Rutu (Pre-Winter)",
      Maasi |-> "Shishira Rutu (Winter)",
      Panguni |-> "Shishira Rutu (Winter)" ]

MEL_NOKKU_NAKSHATRAS ==
    { "Rohini", "Thiruvathirai", "Poosam", "Uthiram", "Uthiradam",
      "Uthirattathi", "Thiruvonam", "Avittam", "Sadayam" }

KEEZH_NOKKU_NAKSHATRAS ==
    { "Bharani", "Karthigai", "Ayilyam", "Makam", "Puram",
      "Moolam", "Pooradam", "Poorattathi" }

\* SAMA_NOKKU_NAKSHATRAS with Visakam left out.
SAMA_NOKKU_NAKSHATRAS_without_Visakam ==
    { "Aswini", "Mirugasiridam", "Punarpoosam", "Hastham", "Chithirai",
      "Swathi", "Anusham", "Kettai", "Revathi" }

SAMA_NOKKU_NAKSHATRAS ==
    { "Aswini", "Mirugasiridam", "Punarpoosam", "Hastham", "Chithirai",
      "Swathi", "Anusham", "Visakam", "Kettai", "Revathi" }

\* SPECIAL_YOGAS[weekday][nak_index], both 0-based in the code: row
\* weekday + 1, entry nak_index + 1 here.
SPECIAL_YOGAS ==
    << << "Marana", "Siddha", "Amrita", "Marana", "Siddha",
          "Marana", "Siddha", "Amrita", "Marana", "Siddha",
          "Marana", "Siddha", "Amrita", "Marana", "Siddha",
          "Marana", "Siddha", "Amrita", "Marana", "Siddha",
          "Marana", "Amrita", "Marana", "Siddha", "Marana",
          "Siddha", "Amrita" >>,
       << "Amrita", "Marana", "Siddha", "Marana", "Amrita",
          "Siddha", "Marana", "Siddha", "Amrita", "Marana",
          "Siddha", "Marana", "Siddha", "Amrita", "Marana",
          "Siddha", "Marana", "Siddha", "Amrita", "Marana",
          "Siddha", "Marana", "Amrita", "Marana", "Siddha",
          "Marana", "Siddha" >>,
       << "Siddha", "Amrita", "Marana", "Siddha", "Marana",
          "Amrita", "Siddha", "Marana", "Siddha", "Amrita",
          "Marana", "Siddha", "Marana", "Siddha", "Amrita",
          "Marana", "Siddha", "Marana", "Siddha", "Amrita",
          "Marana", "Siddha", "Siddha", "Amrita", "Marana",
          "Siddha", "Marana" >>,
       << "Marana", "Siddha", "Amrita", "Marana", "Siddha",
          "Marana", "Amrita", "Siddha", "Marana", "Siddha",
          "Amrita", "Marana", "Siddha", "Marana", "Siddha",
          "Amrita", "Marana", "Siddha", "Marana", "Siddha",
          "Amrita", "Marana", "Siddha", "Marana", "Amrita",
          "Siddha", "Marana" >>,
       << "Siddha", "Marana", "Siddha", "Amrita", "Marana",
          "Siddha", "Marana", "Marana", "Amrita", "Siddha",
          "Marana", "Amrita", "Marana", "Siddha", "Marana",
          "Siddha", "Amrita", "Marana", "Siddha", "Marana",
          "Siddha", "Siddha", "Marana", "Siddha", "Siddha",
          "Amrita", "Marana" >>,
       << "Marana", "Siddha", "Marana", "Siddha", "Amrita",
          "Marana", "Siddha", "Amrita", "Siddha", "Marana",
          "Siddha", "Siddha", "Amrita", "Marana", "Siddha",
          "Marana", "Siddha", "Amrita", "Marana", "Siddha",
          "Marana", "Siddha", "Amrita", "Marana", "Marana",
          "Siddha", "Amrita" >>,
       << "Siddha", "Marana", "Siddha", "Amrita", "Siddha",
          "Amrita", "Marana", "Siddha", "Marana", "Marana",
          "Siddha", "Amrita", "Marana", "Siddha", "Marana",
          "Amrita", "Marana", "Siddha", "Siddha", "Marana",
          "Amrita", "Marana", "Siddha", "Siddha", "Amrita",
          "Marana", "Siddha" >> >>

\* dict.get(key, default) on a table indexed 0 .. Len - 1.
Get(table, key, default) ==
    IF key \in 0 .. Len(table) - 1 THEN table[key + 1] ELSE default

\* dict.get(key, default) on a table keyed by names.
GetNamed(table, key, default) ==
    IF key \in DOMAIN table THEN table[key] ELSE default

get_nokku_naal(nakshatra_name) ==
    IF nakshatra_name \in MEL_NOKKU_NAKSHATRAS THEN
        [ classification |-> "Mel Nokku Naal",
          tamil          |-> "மேல் நோக்கு நாள்",
          direction      |-> "Upward Looking",
          suitable_for   |-> "Construction, building upper floors, worship, coronation, planting trees, horticulture, religious ceremonies" ]
    ELSE IF nakshatra_name \in KEEZH_NOKKU_NAKSHATRAS THEN
        [ classification |-> "Keezh Nokku Naal",
          tamil          |-> "கீழ் நோக்கு நாள்",
          direction      |-> "Downward Looking",
          suitable_for   |-> "Digging wells, laying foundations, mining, underground work, sowing seeds (especially root vegetables)" ]
    ELSE IF nakshatra_name \in SAMA_NOKKU_NAKSHATRAS THEN
        [ classification |-> "Sama Nokku Naal",
          tamil          |-> "சம நோக்கு நாள்",
          direction      |-> "Forward/Side Looking",
          suitable_for   |-> "Travel, starting journeys, buying vehicles, landscaping, gardening, horizontal activities" ]
    ELSE
        [ classification |-> "Unknown",
          tamil          |-> "தெரியாத",
          direction      |-> "Not Classified",
          suitable_for   |-> "Classification not available for this nakshatra" ]

\* get_ayana with Uttarayana starting after 270 degrees.
get_ayana_after_270(sun_sidereal_longitude) ==
    IF (sun_sidereal_longitude > 270) \/ (sun_sidereal_longitude < 90) THEN
        [ name         |-> "Uttarayana",
          description  |-> "Sun's northward journey (Winter Solstice to Summer Solstice)",
          significance |-> "Auspicious period for spiritual practices and positive endeavors" ]
    ELSE
        [ name         |-> "Dakshinayana",
          description  |-> "Sun's southward journey (Summer Solstice to Winter Solstice)",
          significance |-> "Period associated with introspection and ancestral worship" ]

get_ayana(sun_sidereal_longitude) ==
    IF (sun_sidereal_longitude >= 270) \/ (sun_sidereal_longitude < 90) THEN
        [ name         |-> "Uttarayana",
          description  |-> "Sun's northward journey (Winter Solstice to Summer Solstice)",
          significance |-> "Auspicious period for spiritual practices and positive endeavors" ]
    ELSE
        [ name         |-> "Dakshinayana",
          description  |-> "Sun's southward journey (Summer Solstice to Winter Solstice)",
          significance |-> "Period associated with introspection and ancestral worship" ]

auspicious_yogas ==
    { "Amirtha", "Siddha", "Uttama", "Sobhana", "Dhana", "Vradhi",
      "Sowmya", "Siddhi", "Siva", "Sadhya", "Brahma", "Indra" }

inauspicious_yogas ==
    { "Marana", "Arishta", "Atiganda", "Kalana", "Mudgara", "Kala",
      "Vyatipata", "Parigha", "Vaidhriti" }

\* get_amirthathi_yoga without the "- 1" of the index formula.
get_amirthathi_yoga_no_offset(wd, nakshatra_number) ==
    LET yoga_index == (wd + nakshatra_number) % 27
        yoga_name  == At(AMIRTHATHI_YOGAS, yoga_index)
    IN  [ number |-> yoga_index + 1,
          name   |-> yoga_name,
          type   |-> IF yoga_name \in auspicious_yogas THEN "Auspicious"
                     ELSE IF yoga_name \in inauspicious_yogas THEN "Inauspicious"
                     ELSE "Neutral" ]

get_amirthathi_yoga(wd, nakshatra_number) ==
    LET yoga_index == (wd + nakshatra_number - 1) % 27
        yoga_name  == At(AMIRTHATHI_YOGAS, yoga_index)
        yoga_type  == IF yoga_name \in auspicious_yogas THEN "Auspicious"
                      ELSE IF yoga_name \in inauspicious_yogas THEN "Inauspicious"
                      ELSE "Neutral"
    IN  [ number |-> yoga_index + 1,
          name   |-> yoga_name,
          type   |-> yoga_type ]

tamil_names ==
    [ Amrita |-> "அமிர்தம்",
      Siddha |-> "சித்தம்",
      Marana |-> "மரணம்" ]

characteristics ==
    [ Amrita |->
          [ type        |-> "Highly Auspicious",
            description |-> "Nectar-like yoga, excellent for all auspicious activities, marriages, housewarming, starting new ventures",
            color       |-> "green" ],
      Siddha |->
          [ type        |-> "Auspicious",
            description |-> "Success-oriented yoga, good for important work, business deals, spiritual practices",
            color       |-> "blue" ],
      Marana |->
          [ type        |-> "Inauspicious",
            description |-> "Death-like yoga, avoid starting new ventures, marriages, important decisions",
            color       |-> "red" ] ]

\* The record get_special_yoga builds for a looked-up value.
SpecialYogaOf(yoga_type) ==
    [ name        |-> yoga_type,
      tamil       |-> GetNamed(tamil_names, yoga_type, "தெரியாத"),
      type        |-> IF yoga_type \in DOMAIN characteristics
                      THEN characteristics[yoga_type].type ELSE "Unknown",
      description |-> IF yoga_type \in DOMAIN characteristics
                      THEN characteristics[yoga_type].description
                      ELSE "No description available",
      color       |-> IF yoga_type \in DOMAIN characteristics
                      THEN characteristics[yoga_type].color ELSE "gray" ]

\* get_special_yoga looking the nakshatra number up without converting it
\* to an index.
get_special_yoga_one_based(wd, nakshatra_number) ==
    SpecialYogaOf(Get(At(SPECIAL_YOGAS, wd), nakshatra_number, "Unknown"))

get_special_yoga(wd, nakshatra_number) ==
    LET nak_index == nakshatra_number - 1
        yoga_type == Get(At(SPECIAL_YOGAS, wd), nak_index, "Unknown")
    IN  SpecialYogaOf(yoga_type)

rasi_names ==
    << "Mesha", "Vrishabha", "Mithuna", "Kataka", "Simha", "Kanya",
       "Tula", "Vrischika", "Dhanus", "Makara", "Kumbha", "Meena" >>

rasi_tamil_names ==
    << "மேஷம்", "ரிஷபம்", "மிதுனம்", "கடகம்", "சிம்மம்", "கன்னி",
       "துலாம்", "விருச்சிகம்", "தனுசு", "மகரம்", "கும்பம்", "மீனம்" >>

\* The record get_chandrashtamam builds from the current and the offset
\* indices; description and advice are the two names their texts embed.
ChandrashtamamOf(moon_rasi, moon_nak, moon_nak_name, c_rasi, c_nak) ==
    [ current_moon |->
          [ rasi      |-> [ name   |-> At(rasi_names, moon_rasi),
                            tamil  |-> At(rasi_tamil_names, moon_rasi),
                            number |-> moon_rasi + 1 ],
            nakshatra |-> [ name   |-> moon_nak_name,
                            tamil  |-> At(NAKSHATRAS_TAMIL, moon_nak),
                            number |-> moon_nak + 1 ] ],
      chandrashtamam |->
          [ rasi      |-> [ name   |-> At(rasi_names, c_rasi),
                            tamil  |-> At(rasi_tamil_names, c_rasi),
                            number |-> c_rasi + 1 ],
            nakshatra |-> [ name   |-> At(NAKSHATRAS_TAMIL, c_nak),
                            number |-> c_nak + 1 ] ],
      description |-> << At(rasi_names, c_rasi), At(NAKSHATRAS_TAMIL, c_nak) >>,
      advice      |-> << At(rasi_names, c_rasi), At(NAKSHATRAS_TAMIL, c_nak) >> ]

\* get_chandrashtamam counting 8 forward instead of 7.
get_chandrashtamam_plus_eight(moon_rasi, moon_nak, moon_nak_name) ==
    ChandrashtamamOf(moon_rasi, moon_nak, moon_nak_name,
                     (moon_rasi + 8) % 12, (moon_nak + 8) % 27)

get_chandrashtamam(moon_rasi, moon_nak, moon_nak_name) ==
    LET chandrashtamam_rasi_index      == (moon_rasi + 7) % 12
        chandrashtamam_nakshatra_index == (moon_nak + 7) % 27
    IN  ChandrashtamamOf(moon_rasi, moon_nak, moon_nak_name,
                         chandrashtamam_rasi_index,
                         chandrashtamam_nakshatra_index)

\* The classifications of get_panchang for every weekday, every whole
\* degree of the Moon's longitude and the Sun a quarter turn, a half turn,
\* three quarters or no turn behind the Moon.
Elongations == { 0, 90, 180, 270 }

InitClass ==
    /\ IdleRest
    /\ epc = "positions"
    /\ moon_long \in Degrees
    /\ sun_long \in { (moon_long - e) % 360 : e \in Elongations }
    /\ tithi = NoElem
    /\ nakshatra = NoElem
    /\ yoga = NoElem
    /\ karana = NoElem
    /\ IdleScan
    /\ IdleDay
    /\ IdleClass
    /\ gpc = "classify"
    /\ req_date = 0
    /\ req_lon = 0
    /\ req_tz = 0
    /\ weekday \in 0 .. 6
    /\ rise_local = 0
    /\ day_len = 0
    /\ jd = 0
    /\ sunrise_jd = 0
    /\ sunset_jd = 0
    /\ next_sunrise_jd = 0

CalcNokkuNaal ==
    /\ epc = "elements"
    /\ gpc = "classify"
    /\ nokku_naal' = get_nokku_naal(nakshatra.name)
    /\ gpc' = "amirthathi_yoga"
    /\ UNCHANGED <<amirthathi_yoga, special_yoga, tamil_month, rutu, ayana,
                   moon_rasi_index, chandrashtamam,
                   elemVars, ephVars, scanVars, reqVars, sunVars, dayVars>>
    /\ UNCHANGED restVars

CalcAmirthathiYoga ==
    /\ gpc = "amirthathi_yoga"
    /\ amirthathi_yoga' = get_amirthathi_yoga(weekday, nakshatra.number)
    /\ gpc' = "special_yoga"
    /\ UNCHANGED <<nokku_naal, special_yoga, tamil_month, rutu, ayana,
                   moon_rasi_index, chandrashtamam,
                   elemVars, ephVars, scanVars, reqVars, sunVars, dayVars>>
    /\ UNCHANGED restVars

CalcSpecialYoga ==
    /\ gpc = "special_yoga"
    /\ special_yoga' = get_special_yoga(weekday, nakshatra.number)
    /\ gpc' = "tamil_month"
    /\ UNCHANGED <<nokku_naal, amirthathi_yoga, tamil_month, rutu, ayana,
                   moon_rasi_index, chandrashtamam,
                   elemVars, ephVars, scanVars, reqVars, sunVars, dayVars>>
    /\ UNCHANGED restVars

CalcTamilMonth ==
    /\ gpc = "tamil_month"
    /\ LET month_num == sun_long \div 30
       IN  /\ tamil_month' = At(TAMIL_MONTHS, month_num)
           /\ rutu' = GetNamed(RUTU_NAMES, At(TAMIL_MONTHS, month_num), "Unknown")
    /\ gpc' = "ayana"
    /\ UNCHANGED <<nokku_naal, amirthathi_yoga, special_yoga, ayana,
                   moon_rasi_index, chandrashtamam,
                   elemVars, ephVars, scanVars, reqVars, sunVars, dayVars>>
    /\ UNCHANGED restVars

CalcAyana ==
    /\ gpc = "ayana"
    /\ ayana' = get_ayana(sun_long)
    /\ gpc' = "chandrashtamam"
    /\ UNCHANGED <<nokku_naal, amirthathi_yoga, special_yoga, tamil_month, rutu,
                   moon_rasi_index, chandrashtamam,
                   elemVars, ephVars, scanVars, reqVars, sunVars, dayVars>>
    /\ UNCHANGED restVars

CalcChandrashtamam ==
    /\ gpc = "chandrashtamam"
    /\ moon_rasi_index' = moon_long \div 30
    /\ chandrashtamam' =
           get_chandrashtamam(moon_long \div 30, nakshatra.number - 1, nakshatra.name)
    /\ gpc' = "transitions"
    /\ UNCHANGED <<nokku_naal, amirthathi_yoga, special_yoga, tamil_month, rutu,
                   ayana,
                   elemVars, ephVars, scanVars, reqVars, sunVars, dayVars>>
    /\ UNCHANGED restVars

NextClass ==
    \/ ComputeElements
    \/ CalcNokkuNaal
    \/ CalcAmirthathiYoga
    \/ CalcSpecialYoga
    \/ CalcTamilMonth
    \/ CalcAyana
    \/ CalcChandrashtamam

SpecClass == InitClass /\ [][NextClass]_vars

----------------------------------------------------------------------------
(* Properties of the Classification Engine (under SpecClass)               *)

\* C15: the three Nokku Naal name sets are pairwise disjoint and together
\* contain every one of the 27 names of NAKSHATRAS_TAMIL, so get_nokku_naal
\* returns one of the three classifications for every nakshatra
\* get_nakshatra produces, and the 'Unknown' / 'Not Classified' result only
\* for a name in none of the sets.
C15_NokkuPartition ==
    gpc \in {"amirthathi_yoga", "special_yoga", "tamil_month", "ayana",
             "chandrashtamam", "transitions"} =>
        LET classified == MEL_NOKKU_NAKSHATRAS \cup KEEZH_NOKKU_NAKSHATRAS
                              \cup SAMA_NOKKU_NAKSHATRAS
        IN  /\ MEL_NOKKU_NAKSHATRAS \cap KEEZH_NOKKU_NAKSHATRAS = {}
            /\ MEL_NOKKU_NAKSHATRAS \cap SAMA_NOKKU_NAKSHATRAS = {}
            /\ KEEZH_NOKKU_NAKSHATRAS \cap SAMA_NOKKU_NAKSHATRAS = {}
            /\ Len(NAKSHATRAS_TAMIL) = 27
            /\ \A n \in 1 .. 27 : NAKSHATRAS_TAMIL[n] \in classified
            /\ nakshatra.name \in Range(NAKSHATRAS_TAMIL)
            /\ (nokku_naal.classification = "Mel Nokku Naal")
                   <=> (nakshatra.name \in MEL_NOKKU_NAKSHATRAS)
            /\ (nokku_naal.classification = "Keezh Nokku Naal")
                   <=> (nakshatra.name \in KEEZH_NOKKU_NAKSHATRAS)
            /\ (nokku_naal.classification = "Sama Nokku Naal")
                   <=> (nakshatra.name \in SAMA_NOKKU_NAKSHATRAS)
            /\ nokku_naal.classification # "Unknown"
            /\ nokku_naal.direction # "Not Classified"
            /\ \A name \in Range(NAKSHATRAS_TAMIL) \cup {"Abhijit", ""} :
                   /\ (get_nokku_naal(name).classification = "Unknown")
                          <=> (name \notin classified)
                   /\ (get_nokku_naal(name).direction = "Not Classified")
                          <=> (name \notin classified)

\* The last nakshatra, Revathi, is classified Sama Nokku.
C15_Witness ==
    /\ gpc = "amirthathi_yoga"
    /\ nakshatra.number = 27
    /\ nakshatra.name = "Revathi"
    /\ nokku_naal.classification = "Sama Nokku Naal"

\* C16: for every weekday w and nakshatra number n in 1..27,
\* get_amirthathi_yoga returns the name AMIRTHATHI_YOGAS[(w + n - 1) mod 27]
\* with number = that index + 1 and type 'Auspicious' if the name is in the
\* auspicious set, 'Inauspicious' if in the inauspicious set, 'Neutral' if
\* in neither; the two sets are disjoint.
C16_AmirthathiYoga ==
    gpc \in {"special_yoga", "tamil_month", "ayana", "chandrashtamam",
             "transitions"} =>
        LET index == (weekday + nakshatra.number - 1) % 27
        IN  /\ nakshatra.number \in 1 .. 27
            /\ amirthathi_yoga.name = AMIRTHATHI_YOGAS[index + 1]
            /\ amirthathi_yoga.number = index + 1
            /\ auspicious_yogas \cap inauspicious_yogas = {}
            /\ (amirthathi_yoga.type = "Auspicious")
                   <=> (amirthathi_yoga.name \in auspicious_yogas)
            /\ (amirthathi_yoga.type = "Inauspicious")
                   <=> (amirthathi_yoga.name \in inauspicious_yogas)
            /\ (amirthathi_yoga.type = "Neutral")
                   <=> (amirthathi_yoga.name \notin
                            (auspicious_yogas \cup inauspicious_yogas))

\* Saturday with Revathi: the index wraps around to 5, Arishta.
C16_Witness ==
    /\ gpc = "special_yoga"
    /\ weekday = 6
    /\ nakshatra.number = 27
    /\ amirthathi_yoga.number = 6
    /\ amirthathi_yoga.name = "Arishta"
    /\ amirthathi_yoga.type = "Inauspicious"

\* C17: for every weekday w and nakshatra number n in 1..27,
\* get_special_yoga finds the entry SPECIAL_YOGAS[w][n-1] and returns a name
\* in {Amrita, Siddha, Marana} with that value's Tamil name, severity type,
\* description and color; the 'Unknown' / 'gray' fallbacks are never
\* returned.
C17_SpecialYoga ==
    gpc \in {"tamil_month", "ayana", "chandrashtamam", "transitions"} =>
        LET value == SPECIAL_YOGAS[weekday + 1][(nakshatra.number - 1) + 1]
        IN  /\ nakshatra.number \in 1 .. 27
            /\ Len(SPECIAL_YOGAS) = 7
            /\ Len(SPECIAL_YOGAS[weekday + 1]) = 27
            /\ special_yoga.name = value
            /\ special_yoga.name \in {"Amrita", "Siddha", "Marana"}
            /\ special_yoga.tamil = tamil_names[value]
            /\ special_yoga.type = characteristics[value].type
            /\ special_yoga.description = characteristics[value].description
            /\ special_yoga.color = characteristics[value].color
            /\ special_yoga.tamil # "தெரியாத"
            /\ special_yoga.type # "Unknown"
            /\ special_yoga.description # "No description available"
            /\ special_yoga.color \in {"green", "blue", "red"}

\* Saturday with Revathi, the last entry of the table: Siddha.
C17_Witness ==
    /\ gpc = "tamil_month"
    /\ weekday = 6
    /\ nakshatra.number = 27
    /\ special_yoga.name = "Siddha"
    /\ special_yoga.type = "Auspicious"
    /\ special_yoga.color = "blue"

\* C18: for every Moon rasi index r in 0..11 and nakshatra index k in 0..26
\* get_chandrashtamam reports the offset rasi (r + 7) mod 12 and the offset
\* nakshatra (k + 7) mod 27, each 1-based as index + 1, alongside the
\* current rasi r and nakshatra k; rasi 0 (Mesha) gives offset rasi 7
\* (Vrischika) and nakshatra 0 gives offset nakshatra 7.
C18_Chandrashtamam ==
    gpc = "transitions" =>
        LET r == moon_rasi_index
            k == nakshatra.number - 1
            c == chandrashtamam.chandrashtamam
            m == chandrashtamam.current_moon
        IN  /\ r \in 0 .. 11
            /\ k \in 0 .. 26
            /\ 30 * r <= moon_long /\ moon_long < 30 * (r + 1)
            /\ c.rasi.number = ((r + 7) % 12) + 1
            /\ c.rasi.name = rasi_names[((r + 7) % 12) + 1]
            /\ c.nakshatra.number = ((k + 7) % 27) + 1
            /\ c.nakshatra.name = NAKSHATRAS_TAMIL[((k + 7) % 27) + 1]
            /\ m.rasi.number = r + 1
            /\ m.rasi.name = rasi_names[r + 1]
            /\ m.nakshatra.number = k + 1
            /\ m.nakshatra.name = nakshatra.name
            /\ r = 0 => (m.rasi.name = "Mesha" /\ c.rasi.number = 7 + 1
                           /\ c.rasi.name = "Vrischika")
            /\ k = 0 => c.nakshatra.number = 7 + 1

\* The Moon in the last rasi and the last nakshatra: both offsets wrap
\* around to index 6.
C18_Witness ==
    /\ gpc = "transitions"
    /\ moon_rasi_index = 11
    /\ nakshatra.number = 27
    /\ chandrashtamam.chandrashtamam.rasi.number = 7
    /\ chandrashtamam.chandrashtamam.rasi.name = "Tula"
    /\ chandrashtamam.chandrashtamam.nakshatra.number = 7
    /\ chandrashtamam.chandrashtamam.nakshatra.name = "Punarpoosam"

\* C19: for every sidereal Sun longitude S in [0,360) get_ayana returns
\* 'Uttarayana' exactly when S is in [270,360) or [0,90) and 'Dakshinayana'
\* otherwise; 270 is Uttarayana and 90 is Dakshinayana.
C19_Ayana ==
    gpc \in {"chandrashtamam", "transitions"} =>
        /\ sun_long \in 0 .. 359
        /\ (ayana.name = "Uttarayana")
               <=> (sun_long \in 270 .. 359 \/ sun_long \in 0 .. 89)
        /\ (ayana.name = "Dakshinayana") <=> (sun_long \in 90 .. 269)
        /\ sun_long = 269 => ayana.name = "Dakshinayana"
        /\ sun_long = 270 => ayana.name = "Uttarayana"
        /\ sun_long = 89 => ayana.name = "Uttarayana"
        /\ sun_long = 90 => ayana.name = "Dakshinayana"

\* The Sun exactly at 270 degrees.
C19_Witness ==
    /\ gpc = "chandrashtamam"
    /\ sun_long = 270
    /\ ayana.name = "Uttarayana"

\* The months (1..12) whose rutu is the given label.
MonthsOfRutu(label) ==
    { m \in 1 .. 12 : GetNamed(RUTU_NAMES, TAMIL_MONTHS[m], "Unknown") = label }

\* C20: for every sidereal Sun longitude S in [0,360) the tamil_month is
\* TAMIL_MONTHS[floor(S/30)] and the rutu is the RUTU_NAMES entry of that
\* month; the lookup is defined for all 12 month names (never 'Unknown')
\* and each of the 6 season labels is shared by exactly two consecutive
\* months.
C20_MonthAndRutu ==
    gpc \in {"ayana", "chandrashtamam", "transitions"} =>
        LET labels == { GetNamed(RUTU_NAMES, TAMIL_MONTHS[m], "Unknown") :
                            m \in 1 .. 12 }
        IN  /\ sun_long \in 0 .. 359
            /\ \E num \in 0 .. 11 :
                   /\ 30 * num <= sun_long /\ sun_long < 30 * (num + 1)
                   /\ tamil_month = TAMIL_MONTHS[num + 1]
            /\ tamil_month \in DOMAIN RUTU_NAMES
            /\ rutu = RUTU_NAMES[tamil_month]
            /\ rutu # "Unknown"
            /\ "Unknown" \notin labels
            /\ Cardinality(labels) = 6
            /\ \A label \in labels :
                   \E a \in 1 .. 11 : MonthsOfRutu(label) = {a, a + 1}

\* The Sun in the last degree: Panguni, the second month of winter.
C20_Witness ==
    /\ gpc = "ayana"
    /\ sun_long = 359
    /\ tamil_month = "Panguni"
    /\ rutu = "Shishira Rutu (Winter)"

----------------------------------------------------------------------------
(* A direct call of get_special_yoga(weekday, nakshatra_number) with any   *)
(* small arguments, in and out of the documented ranges.                   *)

MaxWeekdayArg == 7
MaxNakArg     == 28

InitLookup ==
    /\ IdleElem
    /\ IdleScan
    /\ IdleDay
    /\ IdleClass
    /\ IdleClock
    /\ IdleConc
    /\ IdleHandler
    /\ gpc = "idle"
    /\ req_date = 0
    /\ req_lon = 0
    /\ req_tz = 0
    /\ rise_local = 0
    /\ day_len = 0
    /\ jd = 0
    /\ sunrise_jd = 0
    /\ sunset_jd = 0
    /\ next_sunrise_jd = 0
    /\ lpc = "call"
    /\ weekday \in 0 .. MaxWeekdayArg
    /\ nak_arg \in 0 .. MaxNakArg

\* The call returns: SPECIAL_YOGAS has a row for the weekday, and the
\* lookups in the row and in the name tables are dict.get with a default.
GetSpecialYoga ==
    /\ lpc = "call"
    /\ weekday \in 0 .. Len(SPECIAL_YOGAS) - 1
    /\ special_yoga' = get_special_yoga(weekday, nak_arg)
    /\ lpc' = "done"
    /\ UNCHANGED <<nak_arg, nokku_naal, amirthathi_yoga, tamil_month, rutu,
                   ayana, moon_rasi_index, chandrashtamam,
                   elemVars, ephVars, scanVars, gpc, reqVars, sunVars,
                   dayVars, clockVars, concVars, handlerVars>>

\* SPECIAL_YOGAS[weekday] raises KeyError: the table has no such row.
GetSpecialYogaKeyError ==
    /\ lpc = "call"
    /\ weekday \notin 0 .. Len(SPECIAL_YOGAS) - 1
    /\ lpc' = "raised"
    /\ UNCHANGED <<nak_arg, classVars,
                   elemVars, ephVars, scanVars, gpc, reqVars, sunVars,
                   dayVars, clockVars, concVars, handlerVars>>

NextLookup == GetSpecialYoga \/ GetSpecialYogaKeyError

SpecLookup == InitLookup /\ [][NextLookup]_vars

\* C23: whenever the index computed for a static table falls outside the
\* table's range (here the special-yoga nakshatra index, nakshatra_number
\* - 1, outside 0..26) the operation fails loudly and never returns a
\* substituted default.
C23_OutOfRangeFailsLoudly ==
    /\ (lpc \in {"done", "raised"} /\ (nak_arg - 1) \notin 0 .. 26) =>
           lpc = "raised"
    /\ lpc = "done" =>
           /\ special_yoga.name \in {"Amrita", "Siddha", "Marana"}
           /\ special_yoga.color # "gray"

----------------------------------------------------------------------------
(* Concurrent invocations of get_panchang                                  *)
(*                                                                         *)
(* FastAPI runs the synchronous handler get_panchang on worker threads, so *)
(* invocations interleave between their calls into the ephemeris library.  *)
(* The tables are never written and every other value is a local of its    *)
(* invocation; the one value invocations share and write is the library's  *)
(* sidereal mode, set in get_sun_moon_positions.  An invocation calls      *)
(* get_sun_moon_positions once at sunrise and again at every scan instant: *)
(* CallsPerInvocation calls here, at consecutive instants.                 *)

NumInvocations     == 2
CallsPerInvocation == 2
MaxInvJd           == 1

Invocations == 1 .. NumInvocations

\* swe.get_ayanamsa_ut(jd) in whole degrees: it depends on the sidereal
\* mode in force (Lahiri about 24, the library's default Fagan/Bradley
\* about 25 in this century).
get_ayanamsa_ut(mode, at_jd) ==
    IF mode = "SIDM_LAHIRI" THEN 24 ELSE 25

\* swe.calc_ut(jd, body)[0][0]: the tropical longitude, which does not
\* depend on the sidereal mode.
calc_ut(at_jd, body) ==
    IF body = "SUN" THEN (sun0 + sun_rate * at_jd) % 360
    ELSE (moon0 + moon_rate * at_jd) % 360

\* The return value of get_sun_moon_positions from its locals.
Positions(at_jd, ayanamsa) ==
    [ sun_sidereal  |-> (calc_ut(at_jd, "SUN") - ayanamsa) % 360,
      moon_sidereal |-> (calc_ut(at_jd, "MOON") - ayanamsa) % 360,
      ayanamsa      |-> ayanamsa ]

\* The instant of the call an invocation is making.
CallInstant(p) == inv_jd[p] + inv_calls[p]

InitConc ==
    /\ IdleElem
    /\ IdlePanchang
    /\ IdleClock
    /\ IdleLookup
    /\ IdleHandler
    /\ spc = "idle"
    /\ skind = "tithi"
    /\ start_jd = 0
    /\ end_jd = 0
    /\ current_jd = 0
    /\ seg_start_jd = 0
    /\ current_elem = NoElem
    /\ segments = << >>
    /\ sun0 = 280
    /\ moon0 \in {0, 100}
    /\ sun_rate = 1
    /\ moon_rate = 13
    /\ sid_mode \in {"SIDM_FAGAN_BRADLEY", "SIDM_LAHIRI"}
    /\ ipc = [p \in Invocations |-> "set_sid_mode"]
    /\ inv_jd \in [Invocations -> 0 .. MaxInvJd]
    /\ inv_calls = [p \in Invocations |-> 0]
    /\ inv_ayanamsa = [p \in Invocations |-> 0]
    /\ inv_result = [p \in Invocations |-> << >>]

\* swe.set_sid_mode(swe.SIDM_LAHIRI)
SetSidMode(p) ==
    /\ ipc[p] = "set_sid_mode"
    /\ sid_mode' = "SIDM_LAHIRI"
    /\ ipc' = [ipc EXCEPT ![p] = "get_ayanamsa_ut"]
    /\ UNCHANGED <<inv_jd, inv_calls, inv_ayanamsa, inv_result,
                   elemVars, ephVars, scanVars, gpc, reqVars, sunVars,
                   dayVars, classVars, clockVars, lookupVars, handlerVars>>

\* ayanamsa = swe.get_ayanamsa_ut(jd)
GetAyanamsa(p) ==
    /\ ipc[p] = "get_ayanamsa_ut"
    /\ inv_ayanamsa' =
           [inv_ayanamsa EXCEPT ![p] = get_ayanamsa_ut(sid_mode, CallInstant(p))]
    /\ ipc' = [ipc EXCEPT ![p] = "calc_ut"]
    /\ UNCHANGED <<sid_mode, inv_jd, inv_calls, inv_result,
                   elemVars, ephVars, scanVars, gpc, reqVars, sunVars,
                   dayVars, classVars, clockVars, lookupVars, handlerVars>>

\* CalcPositions putting the library's default mode back after the call.
CalcPositions_restoring_mode(p) ==
    /\ ipc[p] = "calc_ut"
    /\ inv_result' =
           [inv_result EXCEPT
               ![p] = Append(@, Positions(CallInstant(p), inv_ayanamsa[p]))]
    /\ inv_calls' = [inv_calls EXCEPT ![p] = @ + 1]
    /\ ipc' = [ipc EXCEPT ![p] = IF inv_calls[p] + 1 < CallsPerInvocation
                                  THEN "set_sid_mode" ELSE "done"]
    /\ sid_mode' = "SIDM_FAGAN_BRADLEY"
    /\ UNCHANGED <<inv_jd, inv_ayanamsa,
                   elemVars, ephVars, scanVars, gpc, reqVars, sunVars,
                   dayVars, classVars, clockVars, lookupVars, handlerVars>>

\* The two swe.calc_ut calls and the return of get_sun_moon_positions;
\* the invocation then makes its next call or finishes.
CalcPositions(p) ==
    /\ ipc[p] = "calc_ut"
    /\ inv_result' =
           [inv_result EXCEPT
               ![p] = Append(@, Positions(CallInstant(p), inv_ayanamsa[p]))]
    /\ inv_calls' = [inv_calls EXCEPT ![p] = @ + 1]
    /\ ipc' = [ipc EXCEPT ![p] = IF inv_calls[p] + 1 < CallsPerInvocation
                                  THEN "set_sid_mode" ELSE "done"]
    /\ UNCHANGED <<sid_mode, inv_jd, inv_ayanamsa,
                   elemVars, ephVars, scanVars, gpc, reqVars, sunVars,
                   dayVars, classVars, clockVars, lookupVars, handlerVars>>

NextConc ==
    \E p \in Invocations :
        \/ SetSidMode(p)
        \/ GetAyanamsa(p)
        \/ CalcPositions(p)

SpecConc == InitConc /\ [][NextConc]_vars

\* What an invocation for instant at_jd returns when it runs alone: every
\* call sets the Lahiri mode and reads the ayanamsa under it.
AloneResult(at_jd) ==
    [ k \in 1 .. CallsPerInvocation |->
        Positions(at_jd + k - 1, get_ayanamsa_ut("SIDM_LAHIRI", at_jd + k - 1)) ]

\* C24: any number of concurrent invocations of get_panchang, in any
\* interleaving, each return exactly what they would return alone: no
\* value written by one invocation, the process-wide sidereal mode
\* included, changes the result of another.
C24_InvocationsIndependent ==
    \A p \in Invocations :
        /\ inv_result[p] = SubSeq(AloneResult(inv_jd[p]), 1, inv_calls[p])
        /\ ipc[p] = "done" => inv_result[p] = AloneResult(inv_jd[p])

\* Two invocations for different instants, both between setting the mode
\* and reading the ayanamsa of their second call.
C24_Witness ==
    /\ \A p \in {1, 2} :
           /\ ipc[p] = "get_ayanamsa_ut"
           /\ inv_calls[p] = 1
           /\ Len(inv_result[p]) = 1
    /\ inv_jd[1] # inv_jd[2]
    /\ inv_result[1] # inv_result[2]

----------------------------------------------------------------------------
(* A request through an entry point and get_panchang                       *)
(*                                                                         *)
(* Entry points: POST /api/panchang and POST /api/today (app.py), the MCP  *)
(* tool get_panchang served by call_tool in app.py, and the MCP tool       *)
(* tamil_panchang_get_panchang of mcp_server.py, which validates its input *)
(* and forwards it to POST /api/panchang.  The ephemeris is outside the    *)
(* program: any one of its calls may fail (eph_fails names it).            *)

Entries ==
    { "POST /api/panchang", "POST /api/today", "call_tool get_panchang",
      "tamil_panchang_get_panchang" }

ValidatingEntries == { "tamil_panchang_get_panchang" }

TodayEntries == { "POST /api/today" }

\* A well-formed date and a malformed one.
Dates == { "2025-01-15", "15/01/2025" }

IsWellFormed(date) == date = "2025-01-15"

Latitudes == { -91, -90, 13, 90, 91 }

Longitudes == { -181, -180, 80, 180, 181 }

\* The UTC offset: a finite number or NaN, which a float field accepts.
Timezones == { "5.5", "nan" }

EphemerisCalls == { "sunrise", "next_sunrise", "positions", "transitions" }

\* The keys of the dict get_panchang returns.
ReportFields ==
    { "date", "location", "tamil_month", "rutu", "ayana", "weekday",
      "sunrise", "sunset", "tithi", "tithi_list", "nakshatra",
      "nakshatra_list", "naama_yoga", "naama_yoga_list", "amirthathi_yoga",
      "karana", "lagnam", "moon_sign", "inauspicious_timings",
      "gowri_panchangam", "nalla_neram", "hora", "naal", "special_yoga",
      "chandrashtamam" }

NoResponse == [kind |-> "", status |-> 0, fields |-> {}]

\* The dict returned at the end of get_panchang.
Report == [kind |-> "report", status |-> 200, fields |-> ReportFields]

\* The two except clauses of get_panchang: a ValueError becomes
\* HTTPException(400, "Invalid date format: ..."), any other exception
\* HTTPException(500, "Error calculating panchang: ...").
HTTPException(exception) ==
    IF exception = "ValueError"
    THEN [kind |-> "invalid_input", status |-> 400, fields |-> {}]
    ELSE [kind |-> "calculation_error", status |-> 500, fields |-> {}]

\* A pydantic ValidationError of the input model.
ValidationError == [kind |-> "invalid_input", status |-> 422, fields |-> {}]

\* PanchangInput of mcp_server.py: date pattern, latitude in [-90, 90],
\* longitude in [-180, 180], timezone in [-12, 14].
PanchangInputAccepts(req) ==
    /\ IsWellFormed(req.date)
    /\ req.latitude \in -90 .. 90
    /\ req.longitude \in -180 .. 180
    /\ req.timezone # "nan"

InitHandler ==
    /\ IdleElem
    /\ IdleScan
    /\ IdlePanchang
    /\ IdleClock
    /\ IdleLookup
    /\ IdleConc
    /\ hpc = "received"
    /\ entry \in Entries
    /\ request \in [ date : Dates, latitude : Latitudes,
                       longitude : Longitudes, timezone : Timezones ]
    /\ eph_fails \in EphemerisCalls \cup {"none"}
    /\ computed = {}
    /\ engine_ran = FALSE
    /\ response = NoResponse

HandlerUnchanged ==
    UNCHANGED <<elemVars, ephVars, scanVars, gpc, reqVars, sunVars, dayVars,
                classVars, clockVars, lookupVars, concVars>>

\* PanchangRequest / LocationRequest of app.py: typed fields without
\* ranges, so every request is accepted; /api/today sets today's date.
BuildPanchangRequest ==
    /\ hpc = "received"
    /\ entry \notin ValidatingEntries
    /\ request' = IF entry \in TodayEntries
                   THEN [request EXCEPT !.date = "2025-01-15"]
                   ELSE request
    /\ hpc' = "parse"
    /\ UNCHANGED <<entry, eph_fails, computed, engine_ran, response>>
    /\ HandlerUnchanged

\* PanchangInput accepts the arguments and the tool posts them to
\* /api/panchang.
ValidatePanchangInput ==
    /\ hpc = "received"
    /\ entry \in ValidatingEntries
    /\ PanchangInputAccepts(request)
    /\ hpc' = "parse"
    /\ UNCHANGED <<entry, request, eph_fails, computed, engine_ran, response>>
    /\ HandlerUnchanged

\* PanchangInput rejects the arguments: the tool body never runs.
RejectPanchangInput ==
    /\ hpc = "received"
    /\ entry \in ValidatingEntries
    /\ ~PanchangInputAccepts(request)
    /\ response' = ValidationError
    /\ hpc' = "responded"
    /\ UNCHANGED <<entry, request, eph_fails, computed, engine_ran>>
    /\ HandlerUnchanged

\* One step of the try block: it raises the exception, which the except
\* clauses turn into the response, or adds its locals and moves on.
Step(at, raises, exception, locals, then) ==
    /\ hpc = at
    /\ IF raises
       THEN /\ response' = HTTPException(exception)
            /\ hpc' = "responded"
            /\ UNCHANGED computed
       ELSE /\ computed' = computed \cup locals
            /\ hpc' = then
            /\ UNCHANGED response
    /\ UNCHANGED <<entry, request, eph_fails>>
    /\ HandlerUnchanged

\* dt = datetime.strptime(request.date, "%Y-%m-%d"); jd = julian_day(...)
ParseDate ==
    /\ Step("parse", ~IsWellFormed(request.date), "ValueError",
            {"dt", "jd"}, "sunrise")
    /\ UNCHANGED engine_ran

\* get_sunrise_sunset(jd, latitude, longitude): the first ephemeris call
Sunrise ==
    /\ Step("sunrise", eph_fails = "sunrise", "swisseph.Error",
            {"sunrise_jd", "sunset_jd"}, "next_sunrise")
    /\ engine_ran' = TRUE

NextSunrise ==
    /\ Step("next_sunrise", eph_fails = "next_sunrise", "swisseph.Error",
            {"next_sunrise_jd"}, "positions")
    /\ UNCHANGED engine_ran

SunMoonPositions ==
    /\ Step("positions", eph_fails = "positions", "swisseph.Error",
            {"sun_long", "moon_long", "tithi", "nakshatra", "yoga", "karana",
             "weekday"}, "timings")
    /\ UNCHANGED engine_ran

\* get_rahu_kalam ... get_chandrashtamam; the first jd_to_datetime call
\* (in get_rahu_kalam) computes int(hour + timezone), which raises
\* ValueError for a NaN timezone.
Timings ==
    /\ Step("timings", request.timezone = "nan", "ValueError",
            {"rahu_kalam", "yamagandam", "gulikai", "dhurmuhurtham",
             "gowri_panchangam", "nalla_neram", "hora", "nokku_naal",
             "amirthathi_yoga", "special_yoga", "tamil_month", "rutu",
             "ayana", "location_name", "chandrashtamam"}, "transitions")
    /\ UNCHANGED engine_ran

\* get_tithi_transitions, get_nakshatra_transitions, get_yoga_transitions
Transitions ==
    /\ Step("transitions", eph_fails = "transitions", "swisseph.Error",
            {"tithi_list", "nakshatra_list", "yoga_list"}, "return")
    /\ UNCHANGED engine_ran

\* return { "date": ..., ..., "chandrashtamam": ... }
ReturnReport ==
    /\ hpc = "return"
    /\ response' = Report
    /\ hpc' = "responded"
    /\ UNCHANGED <<entry, request, eph_fails, computed, engine_ran>>
    /\ HandlerUnchanged

NextHandler ==
    \/ BuildPanchangRequest
    \/ ValidatePanchangInput
    \/ RejectPanchangInput
    \/ ParseDate
    \/ Sunrise
    \/ NextSunrise
    \/ SunMoonPositions
    \/ Timings
    \/ Transitions
    \/ ReturnReport

SpecHandler == InitHandler /\ [][NextHandler]_vars

\* C21: get_panchang is all-or-nothing: it returns the complete report or
\* an error carrying no report field; a malformed date yields the
\* invalid-input error (400), and a failure of any ephemeris call or of any
\* later computation step yields the calculation error (500), however many
\* fields had been computed.
C21_AllOrNothing ==
    (hpc = "responded" /\ response.status \in {200, 400, 500}) =>
        /\ response.kind = "report" <=> response.fields = ReportFields
        /\ response.kind # "report" => response.fields = {}
        /\ ~IsWellFormed(request.date) => response.status = 400
        /\ (IsWellFormed(request.date) /\ response.kind # "report") =>
               response.status = 500

\* C22: a latitude outside [-90, 90] or a longitude outside [-180, 180] is
\* rejected as invalid input before any engine computation, on every
\* entry point.
C22_RangeRejected ==
    (request.latitude \notin -90 .. 90 \/ request.longitude \notin -180 .. 180) =>
        /\ ~engine_ran
        /\ hpc = "responded" => response.kind = "invalid_input"

====
